---- MODULE Spec2Model ----
(***************************************************************************)
(* A model of peeredit's Replicated Growable Array (rga.js): replicas,     *)
(* their linked list and timestamp index, the timestamp counter, the       *)
(* subscriber lists installed by RGA.tie, and the deferred-callback queue  *)
(* each replica broadcasts through; and of AceEditorRGA: the editor's      *)
(* lines, _lastText, the deferred change events, RGA.diff and the handlers *)
(* that reconcile editor and replica.                                      *)
(*                                                                         *)
(* The linked list rooted at `left` is a sequence whose first element is   *)
(* the sentinel; a node reference is a position in that sequence, so the   *)
(* index maps a timestamp to the position of the node it refers to.        *)
(***************************************************************************)
EXTENDS Integers, Sequences, FiniteSets, TLC

\* ------------------------------------------------------------------ bounds
MaxOps == 3         \* local addRight/remove calls in one behaviour
MaxOpsAnyOrder == 4 \* the same, for the two founders over a reordering transport
MaxDup == 1         \* re-deliveries of an already applied op (SpecDup only)
MaxEdits == 2       \* user edits typed into the editors (SpecEditor only)
MaxCalls == 3       \* accepted local calls among rejected ones (SpecCalls only)
MaxRace == 1        \* characters the user deletes (SpecHomeRun only)
MaxRelay == 2       \* local calls with three replicas and reordering (SpecRelay only)
MaxAttach == 2      \* local calls before an editor is attached (SpecAttach only)
MaxChain == 2       \* local calls in the chain of replicas (SpecChain only)
MaxSocket == 2      \* local calls of the replicas tied by a socket (SpecSocket only)
MaxTie == 2         \* local calls, and subscribers of one replica (SpecTie only)
MaxUsers == 2       \* connections to the server, and ops the clients send (SpecServer only)
MaxDiff == 4        \* length of the strings given to RGA.diff (SpecDiff only)
MaxRemote == 2      \* edits of the editor's user (SpecRemote only)
MaxRowColumn == 3   \* nodes of the replica a call by row and column is made on (SpecRowColumn only)
MaxForeign == 2     \* ops in all, received from far replicas or local (SpecCounter only)

\* --------------------------------------------------------------- constants
MAX_REPLICA_ID_BITS == 16
LEFT == -1

Replicas == {0, 1, 2}          \* ids of the replicas of the system
Founders == {0, 1}             \* constructed empty and tied before any edit
Central  == 0                  \* the replica that late joiners copy and tie to
\* The characters typed at each replica.  The list code never looks at an
\* atom, so one character per replica is enough to tell the authors apart.
Atoms(r) == IF r = 0 THEN {"X"} ELSE IF r = 1 THEN {"Y"} ELSE {"Z"}

NoError == "none"

\* ---------------------------------------------------------------- variables
VARIABLES
    created,        \* the replicas that have been constructed
    list,           \* list[r]: the nodes reachable from r.left, in order
    index,          \* index[r]: timestamp -> position of the node in list[r]
    nextTimestamp,  \* r._nextTimestamp
    subscribers,    \* r._subscribers: the sinks (tied replicas), in order
    queue,          \* r._queue: deferred callbacks <<sink, op>>, oldest first
    error,          \* what the last operation threw, or NoError
    born,           \* born[r]: the history r was constructed from
    gen,            \* history: the ops generated by local calls
    log,            \* history: log[r] = the ops r has applied
    dups,           \* history: number of re-deliveries so far
    attached,       \* the replicas that are AceEditorRGAs
    editor,         \* editor[r]: r.editor._lines
    lastText,       \* r._lastText
    changes,        \* change events deferred by r.editor, not yet run
    listeners,      \* listeners[r]: how often r._changeCallback is among r.editor's change subscribers
    typed,          \* history: number of user edits so far
    idle,           \* history: change events that found nothing to fold in
    buffer,         \* buffer[s]: the messages emitted on socket end s, not yet delivered
    nextUserId,     \* the server's nextUserId
    userId,         \* userId[s]: the userId of the connection handler run for socket s
    trial,          \* the strings RGA.diff is tried on, and what came of it
    applied         \* history: applied[r] = the <<sender, op>> r applied, in order

editorVars == <<attached, editor, lastText, changes, listeners, typed, idle>>

socketVars == <<buffer, nextUserId, userId>>

\* The socket ends: 10 and 11 are the two ends of one socketpair, 12 and 13
\* of another, and so on; the even end is the server's.  A socket end also stands for the sink tieToSocket makes for
\* it, so that a subscriber list holds replica ids and socket ends.
Sockets == 10..(9 + 2 * MaxUsers)

\* userId[s] before the server has run its connection handler for s
NoUser == -1

\* socketpair(): a.peer = b, b.peer = a
Peer(s) == IF s % 2 = 0 THEN s + 1 ELSE s - 1

\* No socket has emitted anything and the server has assigned no id.
InitSockets ==
    /\ buffer = [s \in Sockets |-> <<>>]
    /\ nextUserId = 0
    /\ userId = [s \in Sockets |-> NoUser]

\* RGA.diff has not been tried on anything.
Untried == [s0 |-> <<>>, s1 |-> <<>>, done |-> FALSE, ops |-> <<>>]

vars == <<created, list, index, nextTimestamp, subscribers, queue, error,
          born, gen, log, dups, attached, editor, lastText, changes,
          listeners, typed, idle, buffer, nextUserId, userId, trial, applied>>

\* ------------------------------------------------------ 32-bit arithmetic
Pow2(n) == 2 ^ n

\* x >>> n for a signed 32-bit x: the shift of x taken as unsigned
Ushr(x, n) ==
    IF x >= 0 THEN x \div Pow2(n) ELSE x \div Pow2(n) + Pow2(32 - n)

\* x << n as a signed 32-bit value, for the shift by MAX_REPLICA_ID_BITS
Shl(x, n) ==
    LET m == x % Pow2(32 - n)
    IN  IF m >= Pow2(31 - n) THEN (m - Pow2(32 - n)) * Pow2(n)
        ELSE m * Pow2(n)

\* The sequence h as a set
Range(h) == {h[i] : i \in 1..Len(h)}

\* ------------------------------------------------------------------- nodes
leftNode == [timestamp |-> LEFT, atom |-> "", removed |-> FALSE]

Node(t, a) == [timestamp |-> t, atom |-> a, removed |-> FALSE]

AddRightOp(t, w, a) ==
    [type |-> "addRight", t |-> t, w |-> [timestamp |-> w, atom |-> a]]

RemoveOp(t) == [type |-> "remove", t |-> t]

\* A replica as one value: what the methods of RGA.prototype read and write.
Rga(r) == [id |-> r, list |-> list[r], index |-> index[r],
           nextTimestamp |-> nextTimestamp[r], error |-> NoError]

\* A constructor that starts every replica's counter at zero
EmptyRga_ZeroCounter(id) ==
    [id |-> id, list |-> <<leftNode>>, index |-> (LEFT :> 1),
     nextTimestamp |-> 0, error |-> NoError]

\* new RGA(id) before any history is applied
EmptyRga(id) == [id |-> id, list |-> <<leftNode>>,
                 index |-> (LEFT :> 1), nextTimestamp |-> id,
                 error |-> NoError]

\* RGA.prototype._timestamp: the value returned and the counter afterwards
TimestampNext(n) == n + Shl(1, MAX_REPLICA_ID_BITS)

\* The advance stopping at the observed counter instead of one past it
ObserveTimestamp_NoPlusOne(n, id, wt) ==
    IF wt >= n
    THEN Shl(Ushr(wt, MAX_REPLICA_ID_BITS), MAX_REPLICA_ID_BITS) + id
    ELSE n

\* The advance forgetting to put the replica id back into the low bits
ObserveTimestamp_NoId(n, id, wt) ==
    IF wt >= n
    THEN Shl(Ushr(wt, MAX_REPLICA_ID_BITS) + 1, MAX_REPLICA_ID_BITS)
    ELSE n

\* No advance at all: the timestamps of other replicas go unobserved
ObserveTimestamp_Never(n, id, wt) == n

\* The counter advance at the head of _downstream_addRight
ObserveTimestamp(n, id, wt) ==
    IF wt >= n
    THEN Shl(Ushr(wt, MAX_REPLICA_ID_BITS) + 1, MAX_REPLICA_ID_BITS) + id
    ELSE n

\* A splice straight behind the anchor, the loop left out
SkipLarger_NoLoop(l, p, wt) == p

\* The loop with its comparison turned round
RECURSIVE SkipLarger_Smaller(_, _, _)
SkipLarger_Smaller(l, p, wt) ==
    IF p < Len(l) /\ wt > l[p + 1].timestamp
    THEN SkipLarger_Smaller(l, p + 1, wt)
    ELSE p

\* The loop `while (pred.next && w.timestamp < pred.next.timestamp)`
RECURSIVE SkipLarger(_, _, _)
SkipLarger(l, p, wt) ==
    IF p < Len(l) /\ wt < l[p + 1].timestamp
    THEN SkipLarger(l, p + 1, wt)
    ELSE p

\* Splice `node` in after position p
Splice(l, p, node) ==
    [i \in 1..(Len(l) + 1) |->
        IF i <= p THEN l[i] ELSE IF i = p + 1 THEN node ELSE l[i - 1]]

\* Positions held by the index after a splice behind position p; the entry
\* for the new timestamp refers to the new node.
Reindex(ix, p, wt) ==
    [t \in (DOMAIN ix) \cup {wt} |->
        IF t = wt THEN p + 1
        ELSE IF ix[t] > p THEN ix[t] + 1 ELSE ix[t]]

\* A downstream addRight as strict about its anchor as the local addRight
DownstreamAddRight_LiveAnchor(s, op) ==
    LET n == ObserveTimestamp(s.nextTimestamp, s.id, op.w.timestamp)
    IN  IF op.t \notin DOMAIN s.index
        THEN [s EXCEPT !.nextTimestamp = n,
                       !.error = "downstream: can't add next to unknown element!"]
        ELSE IF s.list[s.index[op.t]].removed
        THEN [s EXCEPT !.nextTimestamp = n,
                       !.error = "insertion point is removed from the array"]
        ELSE LET p == SkipLarger(s.list, s.index[op.t], op.w.timestamp)
             IN  [s EXCEPT !.nextTimestamp = n,
                           !.list = Splice(s.list, p,
                                           Node(op.w.timestamp, op.w.atom)),
                           !.index = Reindex(s.index, p, op.w.timestamp)]

\* RGA.prototype._downstream_addRight
DownstreamAddRight(s, op) ==
    LET n == ObserveTimestamp(s.nextTimestamp, s.id, op.w.timestamp)
    IN  IF op.t \notin DOMAIN s.index
        THEN [s EXCEPT !.nextTimestamp = n,
                       !.error = "downstream: can't add next to unknown element!"]
        ELSE LET p == SkipLarger(s.list, s.index[op.t], op.w.timestamp)
             IN  [s EXCEPT !.nextTimestamp = n,
                           !.list = Splice(s.list, p,
                                           Node(op.w.timestamp, op.w.atom)),
                           !.index = Reindex(s.index, p, op.w.timestamp)]

\* The remove of lib/rga.js that throws on a node already removed
DownstreamRemove_Throws(s, op) ==
    IF op.t \notin DOMAIN s.index
    THEN [s EXCEPT !.error = "downstream: can't remove unknown element!"]
    ELSE IF s.list[s.index[op.t]].removed
    THEN [s EXCEPT !.error = "downstream: element already removed"]
    ELSE [s EXCEPT !.list[s.index[op.t]].removed = TRUE]

\* RGA.prototype._downstream_remove
DownstreamRemove(s, op) ==
    IF op.t \notin DOMAIN s.index
    THEN [s EXCEPT !.error = "downstream: can't remove unknown element!"]
    ELSE [s EXCEPT !.list[s.index[op.t]].removed = TRUE]

\* The dispatch this["_downstream_" + op.type] of RGA.prototype._downstream
ApplyOp(s, op) ==
    IF op.type = "addRight" THEN DownstreamAddRight(s, op)
    ELSE DownstreamRemove(s, op)

\* A lookup that does not test the node's removed flag
Lookup_Indexed(s, t) == t \in DOMAIN s.index

\* RGA.prototype._lookup
Lookup(s, t) == t \in DOMAIN s.index /\ ~s.list[s.index[t]].removed

\* RGA.prototype.text
RECURSIVE TextFrom(_, _)
TextFrom(l, i) ==
    IF i > Len(l) THEN <<>>
    ELSE (IF l[i].removed THEN <<>> ELSE <<l[i].atom>>) \o TextFrom(l, i + 1)

Text(l) == TextFrom(l, 2)

\* A history that forgets the tombstones
RECURSIVE HistoryFrom_NoRemoves(_, _)
HistoryFrom_NoRemoves(l, i) ==
    IF i > Len(l) THEN <<>>
    ELSE <<AddRightOp(l[i - 1].timestamp, l[i].timestamp, l[i].atom)>>
         \o HistoryFrom_NoRemoves(l, i + 1)

\* A history that anchors every node at the left sentinel
RECURSIVE HistoryFrom_AnchorsLeft(_, _)
HistoryFrom_AnchorsLeft(l, i) ==
    IF i > Len(l) THEN <<>>
    ELSE <<AddRightOp(LEFT, l[i].timestamp, l[i].atom)>>
         \o (IF l[i].removed THEN <<RemoveOp(l[i].timestamp)>> ELSE <<>>)
         \o HistoryFrom_AnchorsLeft(l, i + 1)

\* RGA.prototype.history
RECURSIVE HistoryFrom(_, _)
HistoryFrom(l, i) ==
    IF i > Len(l) THEN <<>>
    ELSE <<AddRightOp(l[i - 1].timestamp, l[i].timestamp, l[i].atom)>>
         \o (IF l[i].removed THEN <<RemoveOp(l[i].timestamp)>> ELSE <<>>)
         \o HistoryFrom(l, i + 1)

History(l) == HistoryFrom(l, 2)

\* The constructor's loop over `history`
RECURSIVE Replay(_, _, _)
Replay(s, h, i) ==
    IF i > Len(h) \/ s.error # NoError THEN s
    ELSE Replay(ApplyOp(s, h[i]), h, i + 1)

\* new RGA(id, history)
NewRga(id, h) == Replay(EmptyRga(id), h, 1)

\* A forEach that leaves out the test `callback !== sender`
RECURSIVE Broadcast_Echo(_, _, _, _)
Broadcast_Echo(subs, sender, op, i) ==
    IF i > Len(subs) THEN <<>>
    ELSE <<[sink |-> subs[i], op |-> op]>>
         \o Broadcast_Echo(subs, sender, op, i + 1)

\* A forEach that stops after the first subscriber it notifies
RECURSIVE Broadcast_FirstOnly(_, _, _, _)
Broadcast_FirstOnly(subs, sender, op, i) ==
    IF i > Len(subs) THEN <<>>
    ELSE IF subs[i] # sender THEN <<[sink |-> subs[i], op |-> op]>>
    ELSE Broadcast_FirstOnly(subs, sender, op, i + 1)

\* The forEach of RGA.prototype._downstream: one deferred callback for each
\* subscriber other than the sender, in subscription order.
RECURSIVE Broadcast(_, _, _, _)
Broadcast(subs, sender, op, i) ==
    IF i > Len(subs) THEN <<>>
    ELSE (IF subs[i] # sender THEN <<[sink |-> subs[i], op |-> op]>>
          ELSE <<>>) \o Broadcast(subs, sender, op, i + 1)

\* ------------------------------------------------------------ JS strings
\* A string is the sequence of its characters.
NL == "\n"

Min(a, b) == IF a < b THEN a ELSE b
Max(a, b) == IF a > b THEN a ELSE b

\* The clamping String.prototype.slice gives an index
SliceIndex(len, i) == IF i < 0 THEN Max(len + i, 0) ELSE Min(i, len)

\* str.slice(from, to) and str.slice(from)
Slice(str, from, to) ==
    SubSeq(str, SliceIndex(Len(str), from) + 1, SliceIndex(Len(str), to))

SliceFrom(str, from) == Slice(str, from, Len(str))

\* lines.join("\n")
RECURSIVE Join(_)
Join(lines) ==
    IF Len(lines) = 0 THEN <<>>
    ELSE IF Len(lines) = 1 THEN lines[1]
    ELSE lines[1] \o <<NL>> \o Join(Tail(lines))

\* text.split(/\n/g): never empty, "" splits into [""]
RECURSIVE Split(_)
Split(text) ==
    IF \A i \in 1..Len(text) : text[i] # NL THEN <<text>>
    ELSE LET i == CHOOSE k \in 1..Len(text) :
                     text[k] = NL /\ \A m \in 1..(k - 1) : text[m] # NL
         IN  <<SubSeq(text, 1, i - 1)>> \o Split(SubSeq(text, i + 1, Len(text)))

\* ----------------------------------------------------------- MockAceEditor
\* new MockAceEditor: _lines = [""]
EmptyLines == << <<>> >>

\* MockAceEditor.getValue
GetValue(lines) == Join(lines)

\* MockAceEditor.setValue, the lines afterwards
SetValue(text) == Split(text)

\* MockAceEditor.insert(loc, s), the lines afterwards
Insert(lines, loc, s) ==
    LET line == IF loc.row < Len(lines) THEN lines[loc.row + 1] ELSE <<>>
        edited == Slice(line, 0, loc.column) \o s \o SliceFrom(line, loc.column)
    IN  SubSeq(lines, 1, Min(loc.row, Len(lines)))
        \o Split(edited)
        \o SubSeq(lines, loc.row + 2, Len(lines))

\* MockAceEditor.remove(span) reads _lines[start.row].slice: a TypeError when
\* the document has no such row
RemoveThrows(lines, span) == span.start.row >= Len(lines)

\* MockAceEditor.remove(span), the lines afterwards
RemoveSpan(lines, span) ==
    LET preStart == Slice(lines[span.start.row + 1], 0, span.start.column)
        endLine == IF span.end.row < Len(lines) THEN lines[span.end.row + 1]
                   ELSE <<>>
        postEnd == Slice(endLine, span.end.column, Len(endLine))
    IN  SubSeq(lines, 1, span.start.row)
        \o <<preStart \o postEnd>>
        \o SubSeq(lines, span.end.row + 2, Len(lines))

\* ---------------------------------------------------------------- RGA.diff
\* runs[j] || 0
RunAt(runs, j) == IF j \in DOMAIN runs THEN runs[j] ELSE 0

\* The loop over matches_in_b for one i: the indices j of b, ascending, that
\* hold the character a[i].  st = [new_runs, result].
RECURSIVE MatchesInB(_, _, _, _, _, _)
MatchesInB(a, b, i, j, runs, st) ==
    IF j >= Len(b) THEN st
    ELSE IF b[j + 1] # a[i + 1] THEN MatchesInB(a, b, i, j + 1, runs, st)
    ELSE LET k == RunAt(runs, j - 1) + 1
             longer == k > st.result.length
         IN  MatchesInB(a, b, i, j + 1, runs,
                 [new_runs |-> (j :> k) @@ st.new_runs,
                  result |-> IF longer
                             THEN [a_start |-> i - k + 1,
                                   b_start |-> j - k + 1, length |-> k]
                             ELSE st.result])

\* The loop over i.  One round's new_runs and result are bound as values
\* (st), so that every round is worked out once.
RECURSIVE LongestRun(_, _, _, _, _)
LongestRun(a, b, i, runs, result) ==
    IF i >= Len(a) THEN result
    ELSE CHOOSE r \in
             {LongestRun(a, b, i + 1, st.new_runs, st.result) :
                 st \in {MatchesInB(a, b, i, 0, runs,
                                    [new_runs |-> <<>>, result |-> result])}} :
             TRUE

\* find_longest_common_slice(a, b)
FindLongestCommonSlice(a, b) ==
    LongestRun(a, b, 0, <<>>, [a_start |-> 0, b_start |-> 0, length |-> 0])

\* Its closing check: throw new Error("algorithm failed")
AlgorithmFailed(a, b) ==
    LET m == FindLongestCommonSlice(a, b)
    IN  Slice(a, m.a_start, m.a_start + m.length)
          # Slice(b, m.b_start, m.b_start + m.length)

\* A compare that stops after the retain
RECURSIVE Compare_NoTail(_, _)
Compare_NoTail(a, b) ==
    IF a = b THEN <<>>
    ELSE LET match == FindLongestCommonSlice(a, b)
         IN  IF match.length = 0
             THEN (IF a # <<>> THEN <<[delete |-> Len(a)]>> ELSE <<>>)
                  \o (IF b # <<>> THEN <<[insert |-> b]>> ELSE <<>>)
             ELSE Compare_NoTail(Slice(a, 0, match.a_start),
                                 Slice(b, 0, match.b_start))
                  \o <<[retain |-> match.length]>>

\* compare(a, b, start, patch): the ops it pushes
RECURSIVE Compare(_, _)
Compare(a, b) ==
    IF a = b THEN <<>>
    ELSE LET match == FindLongestCommonSlice(a, b)
         IN  IF match.length = 0
             THEN (IF a # <<>> THEN <<[delete |-> Len(a)]>> ELSE <<>>)
                  \o (IF b # <<>> THEN <<[insert |-> b]>> ELSE <<>>)
             ELSE Compare(Slice(a, 0, match.a_start),
                          Slice(b, 0, match.b_start))
                  \o <<[retain |-> match.length]>>
                  \o Compare(SliceFrom(a, match.a_start + match.length),
                             SliceFrom(b, match.b_start + match.length))

\* Whether some find_longest_common_slice of the recursion throws
RECURSIVE CompareThrows(_, _)
CompareThrows(a, b) ==
    /\ a # b
    /\ \/ AlgorithmFailed(a, b)
       \/ LET match == FindLongestCommonSlice(a, b)
          IN  /\ match.length # 0
              /\ \/ CompareThrows(Slice(a, 0, match.a_start),
                                  Slice(b, 0, match.b_start))
                 \/ CompareThrows(SliceFrom(a, match.a_start + match.length),
                                  SliceFrom(b, match.b_start + match.length))

\* RGA.diff(s0, s1)
Diff(s0, s1) == [ops |-> Compare(s0, s1)]

\* ------------------------------------------------------------ AceEditorRGA
\* advance(node) of getRowColumnAfter, and the loop body of
\* getRowColumnBefore
Advance(rc, node) ==
    IF node.removed THEN rc
    ELSE IF node.atom = NL THEN [row |-> rc.row + 1, column |-> 0]
    ELSE [rc EXCEPT !.column = @ + 1]

\* advance over the nodes at positions i..j
RECURSIVE AdvanceOver(_, _, _, _)
AdvanceOver(l, i, j, rc) ==
    IF i > j THEN rc ELSE AdvanceOver(l, i + 1, j, Advance(rc, l[i]))

\* AceEditorRGA.prototype.getRowColumnBefore, what it throws
RowColumnBeforeError(s, t) ==
    IF t = LEFT THEN "no position before the left edge of the document"
    ELSE IF t \notin DOMAIN s.index THEN "timestamp not present in document"
    ELSE NoError

\* A getRowColumnBefore that counts the removed nodes too
GetRowColumnBefore_CountsRemoved(s, t) ==
    AdvanceOver([i \in 1..Len(s.list) |->
                    [s.list[i] EXCEPT !.removed = FALSE]],
                2, s.index[t] - 1, [row |-> 0, column |-> 0])

\* AceEditorRGA.prototype.getRowColumnBefore
GetRowColumnBefore(s, t) ==
    AdvanceOver(s.list, 2, s.index[t] - 1, [row |-> 0, column |-> 0])

\* A getRowColumnAfter that stops right after the anchor
GetRowColumnAfter_AtAnchor(s, t, wt) ==
    AdvanceOver(s.list, 1, s.index[t], [row |-> 0, column |-> -1])

\* A getRowColumnAfter whose advance counts the removed nodes too
GetRowColumnAfter_CountsRemoved(s, t, wt) ==
    AdvanceOver([i \in 1..Len(s.list) |->
                    [s.list[i] EXCEPT !.removed = FALSE]],
                1, SkipLarger(s.list, s.index[t], wt),
                [row |-> 0, column |-> -1])

\* AceEditorRGA.prototype.getRowColumnAfter: advance from left through the
\* anchor, then over every following node with a larger timestamp
GetRowColumnAfter(s, t, wt) ==
    AdvanceOver(s.list, 1, SkipLarger(s.list, s.index[t], wt),
                [row |-> 0, column |-> -1])

\* An editor-attached replica as one value; `out` collects the ops handed to
\* _downstream, each with the sender it was handed with.
Emitted(op, source, s) == [op |-> op, source |-> source, seen |-> DOMAIN s.index]

Throw(e, msg) == [e EXCEPT !.rga.error = msg]

\* AceEditorRGA.prototype._assertInSync: the condition it asserts.  Its throw
\* path first reads the undeclared `infodump`.
InSync(e) == e.lastText = Text(e.rga.list)

OutOfSync == "ReferenceError: infodump is not defined"

\* _applyDelta: a cursor is [e, lastNode, node], the two nodes as positions;
\* node = Len(list) + 1 stands for undefined.
\* A retain that counts removed nodes as well
RECURSIVE RetainLoop_CountsRemoved(_, _, _)
RetainLoop_CountsRemoved(c, j, n) ==
    IF j >= n \/ c.e.rga.error # NoError THEN c
    ELSE IF c.node > Len(c.e.rga.list)
    THEN [c EXCEPT !.e = Throw(c.e, "TypeError: node is undefined")]
    ELSE RetainLoop_CountsRemoved([c EXCEPT !.lastNode = c.node,
                                            !.node = @ + 1], j + 1, n)

RECURSIVE RetainLoop(_, _, _)
RetainLoop(c, j, n) ==
    IF j >= n \/ c.e.rga.error # NoError THEN c
    ELSE IF c.node > Len(c.e.rga.list)
    THEN [c EXCEPT !.e = Throw(c.e, "TypeError: node is undefined")]
    ELSE IF ~c.e.rga.list[c.node].removed
    THEN RetainLoop([c EXCEPT !.lastNode = c.node, !.node = @ + 1], j + 1, n)
    ELSE RetainLoop([c EXCEPT !.node = @ + 1], j, n)

RECURSIVE DeleteLoop(_, _, _)
DeleteLoop(c, j, n) ==
    IF j >= n \/ c.e.rga.error # NoError THEN c
    ELSE IF c.node > Len(c.e.rga.list)
    THEN [c EXCEPT !.e = Throw(c.e, "TypeError: node is undefined")]
    ELSE IF ~c.e.rga.list[c.node].removed
    THEN LET op == RemoveOp(c.e.rga.list[c.node].timestamp)
             s == ApplyOp(c.e.rga, op)
         IN  DeleteLoop([c EXCEPT !.lastNode = c.node, !.node = @ + 1,
                                  !.e.rga = s,
                                  !.e.out = IF s.error = NoError
                                            THEN Append(@, Emitted(op, c.e.rga.id, c.e.rga))
                                            ELSE @],
                        j + 1, n)
    ELSE DeleteLoop([c EXCEPT !.node = @ + 1], j, n)

\* An insert loop of _applyDelta that hands each op to the editor as well,
\* as if it had come from another replica
RECURSIVE InsertLoop_WritesEditor(_, _, _, _)
InsertLoop_WritesEditor(c, t, str, j) ==
    IF c.e.rga.error # NoError THEN c
    ELSE IF j >= Len(str)
    THEN [c EXCEPT !.lastNode = c.e.rga.index[t],
                   !.node = c.e.rga.index[t] + 1]
    ELSE LET tnext == c.e.rga.nextTimestamp
             op == AddRightOp(t, tnext, str[j + 1])
             s == ApplyOp([c.e.rga EXCEPT
                              !.nextTimestamp = TimestampNext(tnext)], op)
         IN  InsertLoop_WritesEditor(
                 [c EXCEPT !.e.rga = s,
                           !.e.lines = Insert(@, [row |-> 0, column |-> 0],
                                              <<str[j + 1]>>),
                           !.e.out = IF s.error = NoError
                                     THEN Append(@, Emitted(op, c.e.rga.id, c.e.rga))
                                     ELSE @],
                 tnext, str, j + 1)

RECURSIVE InsertLoop(_, _, _, _)
InsertLoop(c, t, str, j) ==
    IF c.e.rga.error # NoError THEN c
    ELSE IF j >= Len(str)
    THEN [c EXCEPT !.lastNode = c.e.rga.index[t],
                   !.node = c.e.rga.index[t] + 1]
    ELSE LET tnext == c.e.rga.nextTimestamp
             op == AddRightOp(t, tnext, str[j + 1])
             s == ApplyOp([c.e.rga EXCEPT
                              !.nextTimestamp = TimestampNext(tnext)], op)
         IN  InsertLoop([c EXCEPT !.e.rga = s,
                                  !.e.out = IF s.error = NoError
                                            THEN Append(@, Emitted(op, c.e.rga.id, c.e.rga))
                                            ELSE @],
                        tnext, str, j + 1)

RECURSIVE DeltaLoop(_, _, _)
DeltaLoop(c, ops, i) ==
    IF i > Len(ops) \/ c.e.rga.error # NoError THEN c
    ELSE LET op == ops[i]
         IN  DeltaLoop(IF "retain" \in DOMAIN op
                       THEN RetainLoop(c, 0, op.retain)
                       ELSE IF "delete" \in DOMAIN op
                       THEN DeleteLoop(c, 0, op.delete)
                       ELSE InsertLoop(c, c.e.rga.list[c.lastNode].timestamp,
                                       op.insert, 0),
                       ops, i + 1)

\* AceEditorRGA.prototype._applyDelta
ApplyDelta(e, delta) ==
    DeltaLoop([e |-> e, lastNode |-> 1, node |-> 2], delta.ops, 1).e

\* A _takeUserEdits that takes a timestamp before it looks at the editor
TakeUserEdits_MintsFirst(e) ==
    LET f == [e EXCEPT !.rga.nextTimestamp = TimestampNext(@)]
        currentText == GetValue(f.lines)
    IN  IF currentText = f.lastText THEN f
        ELSE IF ~InSync(f) THEN Throw(f, OutOfSync)
        ELSE IF CompareThrows(f.lastText, currentText)
        THEN Throw(f, "algorithm failed")
        ELSE LET e2 == ApplyDelta(f, Diff(f.lastText, currentText))
                 e3 == [e2 EXCEPT !.lastText = currentText]
             IN  IF e2.rga.error # NoError THEN e2
                 ELSE IF ~InSync(e3) THEN Throw(e3, OutOfSync)
                 ELSE e3

\* AceEditorRGA.prototype._takeUserEdits
TakeUserEdits(e) ==
    LET currentText == GetValue(e.lines)
    IN  IF currentText = e.lastText THEN e
        ELSE IF ~InSync(e) THEN Throw(e, OutOfSync)
        ELSE IF CompareThrows(e.lastText, currentText)
        THEN Throw(e, "algorithm failed")
        ELSE LET e2 == ApplyDelta(e, Diff(e.lastText, currentText))
                 e3 == [e2 EXCEPT !.lastText = currentText]
             IN  IF e2.rga.error # NoError THEN e2
                 ELSE IF ~InSync(e3) THEN Throw(e3, OutOfSync)
                 ELSE e3

\* A _withEditorCallbacksDisabled that leaves the listener registered while
\* the editor is written
WithEditorCallbacksDisabled_ListenerOn(e, lines, msg) ==
    IF msg # NoError THEN Throw(e, msg)
    ELSE [e EXCEPT !.lines = lines, !.events = @ + e.listeners]

\* AceEditorRGA.prototype._withEditorCallbacksDisabled around an action that
\* leaves the editor holding `lines`, or throws msg: off("change") takes one
\* registration of the listener away, the write defers one change event for
\* each listener still registered, and on("change") registers the listener
\* again, unless the action threw.
WithEditorCallbacksDisabled(e, lines, msg) ==
    LET n == IF e.listeners > 0 THEN e.listeners - 1 ELSE 0
    IN  IF msg # NoError THEN [Throw(e, msg) EXCEPT !.listeners = n]
        ELSE [e EXCEPT !.lines = lines, !.events = @ + n, !.listeners = n + 1]

\* AceEditorRGA.prototype._applyOpToEditor
ApplyOpToEditor(e, op) ==
    IF op.type = "addRight"
    THEN IF op.w.timestamp \in DOMAIN e.rga.index
         THEN Throw(e, "bug - message delivered twice")
         ELSE IF op.t \notin DOMAIN e.rga.index
         THEN Throw(e, "timestamp not present in document")
         ELSE WithEditorCallbacksDisabled(e,
                  Insert(e.lines,
                         GetRowColumnAfter(e.rga, op.t, op.w.timestamp),
                         <<op.w.atom>>), NoError)
    ELSE IF op.t \notin DOMAIN e.rga.index
    THEN Throw(e, "TypeError: this._index.get(...) is undefined")
    ELSE IF e.rga.list[e.rga.index[op.t]].removed THEN e
    ELSE IF RowColumnBeforeError(e.rga, op.t) # NoError
    THEN Throw(e, RowColumnBeforeError(e.rga, op.t))
    ELSE LET loc == GetRowColumnBefore(e.rga, op.t)
         IN  IF loc.row >= Len(e.lines)
             THEN Throw(e, "TypeError: getLine(...) is undefined")
             ELSE LET removingNewline ==
                          Len(e.lines[loc.row + 1]) = loc.column
                      whatToRemove ==
                          [start |-> loc,
                           end |-> IF removingNewline
                                   THEN [row |-> loc.row + 1, column |-> 0]
                                   ELSE [row |-> loc.row,
                                         column |-> loc.column + 1]]
                  IN  IF RemoveThrows(e.lines, whatToRemove)
                      THEN WithEditorCallbacksDisabled(e, e.lines,
                               "TypeError: _lines[...] is undefined")
                      ELSE WithEditorCallbacksDisabled(e,
                               RemoveSpan(e.lines, whatToRemove), NoError)

\* A _customDownstream that leaves _lastText as _takeUserEdits set it
CustomDownstream_StaleLastText(e, source, op) ==
    LET e1 == TakeUserEdits(e)
        e2 == ApplyOpToEditor(e1, op)
        s3 == ApplyOp(e2.rga, op)
        e3 == [e2 EXCEPT !.rga = s3,
                         !.out = Append(@, Emitted(op, source, e2.rga))]
    IN  IF e1.rga.error # NoError THEN e1
        ELSE IF e2.rga.error # NoError THEN e2
        ELSE IF s3.error # NoError THEN [e2 EXCEPT !.rga = s3]
        ELSE IF ~InSync(e3) THEN Throw(e3, OutOfSync)
        ELSE e3

\* A _customDownstream that looks for user edits after the remote op, not
\* before it
CustomDownstream_RemoteFirst(e, source, op) ==
    LET e1 == ApplyOpToEditor(e, op)
        s2 == ApplyOp(e1.rga, op)
        e2 == [e1 EXCEPT !.rga = s2,
                         !.out = Append(@, Emitted(op, source, e1.rga))]
        e3 == TakeUserEdits(e2)
        e4 == [e3 EXCEPT !.lastText = GetValue(e3.lines)]
    IN  IF e1.rga.error # NoError THEN e1
        ELSE IF s2.error # NoError THEN [e1 EXCEPT !.rga = s2]
        ELSE IF e3.rga.error # NoError THEN e3
        ELSE IF ~InSync(e4) THEN Throw(e4, OutOfSync)
        ELSE e4

\* AceEditorRGA.prototype._customDownstream
CustomDownstream(e, source, op) ==
    LET e1 == TakeUserEdits(e)
        e2 == ApplyOpToEditor(e1, op)
        s3 == ApplyOp(e2.rga, op)
        e3 == [e2 EXCEPT !.rga = s3,
                         !.out = Append(@, Emitted(op, source, e2.rga)),
                         !.lastText = GetValue(e2.lines)]
    IN  IF e1.rga.error # NoError THEN e1
        ELSE IF e2.rga.error # NoError THEN e2
        ELSE IF s3.error # NoError THEN [e2 EXCEPT !.rga = s3]
        ELSE IF ~InSync(e3) THEN Throw(e3, OutOfSync)
        ELSE e3

\* ------------------------------------------------------------------- Init
Init ==
    /\ created = Founders
    /\ list = [r \in Replicas |-> EmptyRga(r).list]
    /\ index = [r \in Replicas |-> EmptyRga(r).index]
    /\ nextTimestamp = [r \in Replicas |-> EmptyRga(r).nextTimestamp]
    /\ subscribers = [r \in Replicas |->
                        IF r = 0 THEN <<1>> ELSE IF r = 1 THEN <<0>>
                        ELSE <<>>]
    /\ queue = [r \in Replicas |-> <<>>]
    /\ error = NoError
    /\ born = [r \in Replicas |-> <<>>]
    /\ gen = {}
    /\ log = [r \in Replicas |-> {}]
    /\ dups = 0
    /\ attached = {}
    /\ editor = [r \in Replicas |-> EmptyLines]
    /\ lastText = [r \in Replicas |-> <<>>]
    /\ changes = [r \in Replicas |-> 0]
    /\ listeners = [r \in Replicas |-> IF r \in attached THEN 1 ELSE 0]
    /\ typed = 0
    /\ idle = 0
    /\ InitSockets
    /\ trial = Untried
    /\ applied = [r \in Replicas |-> <<>>]

\* ---------------------------------------------------------------- actions
\* A _downstream that notifies the subscribers whether the apply threw or not
Downstream_ForwardsAnyway(r, sender, op, n, q0) ==
    LET s == ApplyOp([Rga(r) EXCEPT !.nextTimestamp = n], op)
    IN  /\ list' = [list EXCEPT ![r] = s.list]
        /\ index' = [index EXCEPT ![r] = s.index]
        /\ nextTimestamp' = [nextTimestamp EXCEPT ![r] = s.nextTimestamp]
        /\ error' = s.error
        /\ queue' = [q0 EXCEPT ![r] =
                        @ \o Broadcast(subscribers[r], sender, op, 1)]
        /\ IF s.error = NoError
           THEN /\ log' = [log EXCEPT ![r] = @ \cup {op}]
                /\ applied' = [applied EXCEPT ![r] =
                                  Append(@, [sender |-> sender, op |-> op])]
           ELSE /\ log' = log
                /\ applied' = applied

\* A _downstream that notifies the subscribers of the replica's own ops only
\* and passes on nothing it receives
Downstream_NoRelay(r, sender, op, n, q0) ==
    LET s == ApplyOp([Rga(r) EXCEPT !.nextTimestamp = n], op)
    IN  /\ list' = [list EXCEPT ![r] = s.list]
        /\ index' = [index EXCEPT ![r] = s.index]
        /\ nextTimestamp' = [nextTimestamp EXCEPT ![r] = s.nextTimestamp]
        /\ error' = s.error
        /\ IF s.error = NoError
           THEN /\ log' = [log EXCEPT ![r] = @ \cup {op}]
                /\ applied' = [applied EXCEPT ![r] =
                                  Append(@, [sender |-> sender, op |-> op])]
                /\ queue' = [q0 EXCEPT ![r] =
                                @ \o (IF sender = r
                                      THEN Broadcast(subscribers[r], sender,
                                                     op, 1)
                                      ELSE <<>>)]
           ELSE /\ log' = log
                /\ applied' = applied
                /\ queue' = q0

\* RGA.prototype._downstream(sender, op) at replica r, entered with the
\* counter n and the queues q0: apply the op, then defer one callback per
\* subscriber other than the sender.  A throw in the apply leaves the
\* subscribers unnotified.
Downstream(r, sender, op, n, q0) ==
    LET s == ApplyOp([Rga(r) EXCEPT !.nextTimestamp = n], op)
    IN  /\ list' = [list EXCEPT ![r] = s.list]
        /\ index' = [index EXCEPT ![r] = s.index]
        /\ nextTimestamp' = [nextTimestamp EXCEPT ![r] = s.nextTimestamp]
        /\ error' = s.error
        /\ IF s.error = NoError
           THEN /\ log' = [log EXCEPT ![r] = @ \cup {op}]
                /\ applied' = [applied EXCEPT ![r] =
                                  Append(@, [sender |-> sender, op |-> op])]
                /\ queue' = [q0 EXCEPT ![r] =
                                @ \o Broadcast(subscribers[r], sender, op, 1)]
           ELSE /\ log' = log
                /\ applied' = applied
                /\ queue' = q0

\* The timestamps some replica has heard of: what a caller may pass in.
KnownTimestamps ==
    {LEFT} \cup UNION {DOMAIN index[r] : r \in created}

\* RGA.prototype.addRight(t, a) called at replica r
AddRight(r, t, a) ==
    /\ r \in created
    /\ Lookup(Rga(r), t)
    /\ LET w == nextTimestamp[r]
           op == AddRightOp(t, w, a)
       IN  /\ Downstream(r, r, op, TimestampNext(w), queue)
           /\ gen' = gen \cup {[op |-> op, origin |-> r,
                                 seen |-> DOMAIN index[r]]}
    /\ UNCHANGED <<created, subscribers, born, dups>>
    /\ UNCHANGED <<editorVars, socketVars, trial>>

\* RGA.prototype.remove(t) called at replica r
Remove(r, t) ==
    /\ r \in created
    /\ Lookup(Rga(r), t)
    /\ LET op == RemoveOp(t)
       IN  /\ Downstream(r, r, op, nextTimestamp[r], queue)
           /\ gen' = gen \cup {[op |-> op, origin |-> r,
                                 seen |-> DOMAIN index[r]]}
    /\ UNCHANGED <<created, subscribers, born, dups>>
    /\ UNCHANGED <<editorVars, socketVars, trial>>

\* The i-th deferred callback of replica q's queue runs: callback(self, op),
\* which is the sink's downstream(sender = q, op).
DeliverAt(q, i) ==
    /\ q \in created
    /\ i \in 1..Len(queue[q])
    /\ queue[q][i].sink \notin attached
    /\ LET task == queue[q][i]
           rest == [j \in 1..(Len(queue[q]) - 1) |->
                       IF j < i THEN queue[q][j] ELSE queue[q][j + 1]]
       IN  Downstream(task.sink, q, task.op, nextTimestamp[task.sink],
                      [queue EXCEPT ![q] = rest])
    /\ UNCHANGED <<created, subscribers, born, gen, dups>>
    /\ UNCHANGED <<editorVars, socketVars, trial>>

\* A queue that runs its newest callback first (pop in place of shift)
Deliver_Newest(q) == DeliverAt(q, Len(queue[q]))

\* The queue hands over its oldest callback (MockEventQueue.drain, one step)
Deliver(q) == DeliverAt(q, 1)

\* A younger callback runs before an older one: a transport that reorders
Overtake(q, i) == i > 1 /\ DeliverAt(q, i)

\* RGA.tie(a, b): the subscriber lists afterwards, and what it throws
TieError(a, b) ==
    IF History(a.list) # History(b.list)
    THEN "RGA.tie: arguments must start out already in sync"
    ELSE NoError

\* A tie that subscribes without comparing the histories
Tie_Unchecked(subs, a, b) ==
    [subs EXCEPT ![a.id] = Append(@, b.id), ![b.id] = Append(@, a.id)]

Tie(subs, a, b) ==
    IF TieError(a, b) # NoError THEN subs
    ELSE [subs EXCEPT ![a.id] = Append(@, b.id), ![b.id] = Append(@, a.id)]

\* A replica joins: new RGA(id, p.history()) followed by RGA.tie(p, id)
Connect(p, id) ==
    /\ p \in created
    /\ id \in Replicas \ created
    /\ LET h == History(list[p])
           s == NewRga(id, h)
       IN  IF s.error # NoError
           THEN /\ error' = s.error
                /\ UNCHANGED <<created, list, index, nextTimestamp,
                               subscribers, born, log, applied>>
           ELSE /\ list' = [list EXCEPT ![id] = s.list]
                /\ index' = [index EXCEPT ![id] = s.index]
                /\ nextTimestamp' = [nextTimestamp EXCEPT
                                        ![id] = s.nextTimestamp]
                /\ born' = [born EXCEPT ![id] = h]
                /\ log' = [log EXCEPT ![id] = {h[i] : i \in 1..Len(h)}]
                /\ applied' = [applied EXCEPT ![id] =
                                  [i \in 1..Len(h) |->
                                      [sender |-> id, op |-> h[i]]]]
                /\ created' = created \cup {id}
                /\ subscribers' = Tie(subscribers, Rga(p), s)
                /\ error' = TieError(Rga(p), s)
    /\ UNCHANGED <<queue, gen, dups>>
    /\ UNCHANGED <<editorVars, socketVars, trial>>

\* An op replica r has already applied reaches r.downstream once more, from
\* the sink `sender`.
Redeliver(r, sender, op) ==
    /\ r \in created
    /\ dups < MaxDup
    /\ op \in log[r]
    /\ \E i \in 1..Len(subscribers[r]) : subscribers[r][i] = sender
    /\ Downstream(r, sender, op, nextTimestamp[r], queue)
    /\ dups' = dups + 1
    /\ UNCHANGED <<created, subscribers, born, gen>>
    /\ UNCHANGED <<editorVars, socketVars, trial>>

\* Fewer than n local calls have been made so far.
Budget(n) == Cardinality(gen) < n

Next ==
    \/ /\ Budget(MaxOps)
       /\ \E r \in Replicas, t \in KnownTimestamps :
             \E a \in Atoms(r) : AddRight(r, t, a)
    \/ /\ Budget(MaxOps)
       /\ \E r \in Replicas, t \in KnownTimestamps : Remove(r, t)
    \/ \E q \in Replicas : Deliver(q)
    \/ \E id \in Replicas : Connect(Central, id)

Spec == Init /\ [][Next]_vars

\* The founders over a transport that may reorder what it carries.
NextAnyOrder ==
    \/ /\ Budget(MaxOpsAnyOrder)
       /\ \E r \in Replicas, t \in KnownTimestamps :
             \E a \in Atoms(r) : AddRight(r, t, a)
    \/ /\ Budget(MaxOpsAnyOrder)
       /\ \E r \in Replicas, t \in KnownTimestamps : Remove(r, t)
    \/ \E q \in Replicas : Deliver(q)
    \/ \E q \in Replicas, i \in 2..MaxOpsAnyOrder : Overtake(q, i)

SpecAnyOrder == Init /\ [][NextAnyOrder]_vars

\* RGA.prototype.addRight(t, a) called at replica r with an insertion point
\* it throws for
AddRightRejected(r, t, a) ==
    /\ r \in created
    /\ ~Lookup(Rga(r), t)
    /\ error' = IF t \notin DOMAIN index[r]
                THEN "insertion point is not in the array"
                ELSE "insertion point is removed from the array"
    /\ UNCHANGED <<created, list, index, nextTimestamp, subscribers, queue,
                   born, gen, log, dups, applied>>
    /\ UNCHANGED <<editorVars, socketVars, trial>>

\* RGA.prototype.remove(t) called at replica r with a target it throws for
RemoveRejected(r, t) ==
    /\ r \in created
    /\ ~Lookup(Rga(r), t)
    /\ error' = "can't remove node that doesn't exist"
    /\ UNCHANGED <<created, list, index, nextTimestamp, subscribers, queue,
                   born, gen, log, dups, applied>>
    /\ UNCHANGED <<editorVars, socketVars, trial>>

\* The founders with callers that pass any timestamp some replica has heard
\* of, live at the called replica or not.
NextCalls ==
    \/ /\ Budget(MaxCalls)
       /\ \E r \in Replicas, t \in KnownTimestamps :
             \E a \in Atoms(r) : AddRight(r, t, a)
    \/ /\ Budget(MaxCalls)
       /\ \E r \in Replicas, t \in KnownTimestamps : Remove(r, t)
    \/ \E r \in Replicas, t \in KnownTimestamps :
          \E a \in Atoms(r) : AddRightRejected(r, t, a)
    \/ \E r \in Replicas, t \in KnownTimestamps : RemoveRejected(r, t)
    \/ \E q \in Replicas : Deliver(q)

SpecCalls == Init /\ [][NextCalls]_vars

\* The central replica relaying between its subscribers over a transport
\* that may reorder what it carries.
NextRelay ==
    \/ /\ Budget(MaxRelay)
       /\ \E r \in Replicas, t \in KnownTimestamps :
             \E a \in Atoms(r) : AddRight(r, t, a)
    \/ /\ Budget(MaxRelay)
       /\ \E r \in Replicas, t \in KnownTimestamps : Remove(r, t)
    \/ \E q \in Replicas : Deliver(q)
    \/ \E q \in Replicas, i \in 2..MaxRelay : Overtake(q, i)
    \/ \E id \in Replicas : Connect(Central, id)

SpecRelay == Init /\ [][NextRelay]_vars

\* Replicas 0, 1, 2 constructed empty and tied in a chain: tie(0, 1), then
\* tie(1, 2).
InitChain ==
    /\ created = Replicas
    /\ list = [r \in Replicas |-> EmptyRga(r).list]
    /\ index = [r \in Replicas |-> EmptyRga(r).index]
    /\ nextTimestamp = [r \in Replicas |-> EmptyRga(r).nextTimestamp]
    /\ subscribers = [r \in Replicas |->
                        IF r = 0 THEN <<1>> ELSE IF r = 1 THEN <<0, 2>>
                        ELSE <<1>>]
    /\ queue = [r \in Replicas |-> <<>>]
    /\ error = NoError
    /\ born = [r \in Replicas |-> <<>>]
    /\ gen = {}
    /\ log = [r \in Replicas |-> {}]
    /\ dups = 0
    /\ attached = {}
    /\ editor = [r \in Replicas |-> EmptyLines]
    /\ lastText = [r \in Replicas |-> <<>>]
    /\ changes = [r \in Replicas |-> 0]
    /\ listeners = [r \in Replicas |-> IF r \in attached THEN 1 ELSE 0]
    /\ typed = 0
    /\ idle = 0
    /\ InitSockets
    /\ trial = Untried
    /\ applied = [r \in Replicas |-> <<>>]

NextChain ==
    \/ /\ Budget(MaxChain)
       /\ \E r \in Replicas, t \in KnownTimestamps :
             \E a \in Atoms(r) : AddRight(r, t, a)
    \/ /\ Budget(MaxChain)
       /\ \E r \in Replicas, t \in KnownTimestamps : Remove(r, t)
    \/ \E q \in Replicas : Deliver(q)

\* The event queue runs every callback deferred to it.
SpecChain ==
    InitChain /\ [][NextChain]_vars
        /\ WF_vars(\E q \in Replicas : Deliver(q))

\* ---------------------------------------------------------------- RGA.tie
\* Three replicas constructed empty, none tied yet
InitTie ==
    /\ created = Replicas
    /\ list = [r \in Replicas |-> EmptyRga(r).list]
    /\ index = [r \in Replicas |-> EmptyRga(r).index]
    /\ nextTimestamp = [r \in Replicas |-> EmptyRga(r).nextTimestamp]
    /\ subscribers = [r \in Replicas |-> <<>>]
    /\ queue = [r \in Replicas |-> <<>>]
    /\ error = NoError
    /\ born = [r \in Replicas |-> <<>>]
    /\ gen = {}
    /\ log = [r \in Replicas |-> {}]
    /\ dups = 0
    /\ attached = {}
    /\ editor = [r \in Replicas |-> EmptyLines]
    /\ lastText = [r \in Replicas |-> <<>>]
    /\ changes = [r \in Replicas |-> 0]
    /\ listeners = [r \in Replicas |-> IF r \in attached THEN 1 ELSE 0]
    /\ typed = 0
    /\ idle = 0
    /\ InitSockets
    /\ trial = Untried
    /\ applied = [r \in Replicas |-> <<>>]

\* RGA.tie(a, b), called at any time
TieCall(a, b) ==
    /\ a \in created /\ b \in created /\ a # b
    /\ Len(subscribers[a]) < MaxTie /\ Len(subscribers[b]) < MaxTie
    /\ error' = TieError(Rga(a), Rga(b))
    /\ subscribers' = Tie(subscribers, Rga(a), Rga(b))
    /\ UNCHANGED <<created, list, index, nextTimestamp, queue, born, gen,
                   log, dups, applied>>
    /\ UNCHANGED <<editorVars, socketVars, trial>>

\* The replicas edit and get tied while they do.  A replica is tied to the
\* central one only, so the ties never close a ring, in which an op would
\* go round for ever.
NextTie ==
    \/ /\ Budget(MaxTie)
       /\ \E r \in Replicas, t \in KnownTimestamps :
             \E a \in Atoms(r) : AddRight(r, t, a)
    \/ /\ Budget(MaxTie)
       /\ \E r \in Replicas, t \in KnownTimestamps : Remove(r, t)
    \/ \E q \in Replicas : Deliver(q)
    \/ \E b \in Replicas : TieCall(Central, b) \/ TieCall(b, Central)

SpecTie == InitTie /\ [][NextTie]_vars

\* ------------------------------------------------------------ tieToSocket
\* Replica 0 tied to replica 2 and to socket end 10, replica 1 to the other
\* end, 11: RGA.tie(0, 2), tieToSocket(0, 10), tieToSocket(1, 11).
TiedTo == [s \in {10, 11} |-> IF s = 10 THEN 0 ELSE 1]

InitSocket ==
    /\ created = Replicas
    /\ list = [r \in Replicas |-> EmptyRga(r).list]
    /\ index = [r \in Replicas |-> EmptyRga(r).index]
    /\ nextTimestamp = [r \in Replicas |-> EmptyRga(r).nextTimestamp]
    /\ subscribers = [r \in Replicas |->
                        IF r = 0 THEN <<2, 10>> ELSE IF r = 1 THEN <<11>>
                        ELSE <<0>>]
    /\ queue = [r \in Replicas |-> <<>>]
    /\ error = NoError
    /\ born = [r \in Replicas |-> <<>>]
    /\ gen = {}
    /\ log = [r \in Replicas |-> {}]
    /\ dups = 0
    /\ attached = {}
    /\ editor = [r \in Replicas |-> EmptyLines]
    /\ lastText = [r \in Replicas |-> <<>>]
    /\ changes = [r \in Replicas |-> 0]
    /\ listeners = [r \in Replicas |-> IF r \in attached THEN 1 ELSE 0]
    /\ typed = 0
    /\ idle = 0
    /\ InitSockets
    /\ trial = Untried
    /\ applied = [r \in Replicas |-> <<>>]

\* The oldest deferred callback of q's queue runs and its sink is the a_s of
\* tieToSocket: s.emit("downstream", op), which buffers the message.
DeliverToSocket(q) ==
    /\ q \in created
    /\ queue[q] # <<>>
    /\ queue[q][1].sink \in Sockets
    /\ buffer' = [buffer EXCEPT ![queue[q][1].sink] =
                     Append(@, [tag |-> "downstream", op |-> queue[q][1].op])]
    /\ queue' = [queue EXCEPT ![q] = Tail(@)]
    /\ UNCHANGED <<created, list, index, nextTimestamp, subscribers, error,
                   born, gen, log, dups, applied, nextUserId, userId,
                   trial>>
    /\ UNCHANGED editorVars

\* The oldest deferred callback of q's queue runs and its sink is a replica.
DeliverToReplica(q) ==
    /\ queue[q] # <<>>
    /\ queue[q][1].sink \in Replicas
    /\ Deliver(q)

\* s.emit("disconnect")
EmitDisconnect(s) ==
    /\ Peer(s) \in Range(subscribers[TiedTo[Peer(s)]])
    /\ \A i \in 1..Len(buffer[s]) : buffer[s][i].tag # "disconnect"
    /\ buffer' = [buffer EXCEPT ![s] = Append(@, [tag |-> "disconnect"])]
    /\ UNCHANGED <<created, list, index, nextTimestamp, subscribers, queue,
                   error, born, gen, log, dups, applied, nextUserId, userId,
                   trial>>
    /\ UNCHANGED editorVars

\* An off that empties the subscriber list
Off_All(subs, c) == <<>>

\* RGA.prototype.off("op", c): indexOf, then splice(i, 1)
Off(subs, c) ==
    IF c \notin Range(subs) THEN subs
    ELSE LET i == CHOOSE k \in 1..Len(subs) :
                     subs[k] = c /\ \A j \in 1..(k - 1) : subs[j] # c
         IN  [j \in 1..(Len(subs) - 1) |->
                 IF j < i THEN subs[j] ELSE subs[j + 1]]

\* A socket listener that hands the op on as the replica's own
FromSocket_AsOwn(a, sink, op, q0) ==
    Downstream(a, a, op, nextTimestamp[a], q0)

\* The "downstream" listener tieToSocket installs: a.downstream(a_s, op)
FromSocket(a, sink, op, q0) ==
    Downstream(a, sink, op, nextTimestamp[a], q0)

\* s.deliver(): the oldest message buffered at s is handed to the listeners
\* tieToSocket installed on the peer of s.
SocketDeliver(s) ==
    /\ buffer[s] # <<>>
    /\ buffer' = [buffer EXCEPT ![s] = Tail(@)]
    /\ LET msg == buffer[s][1]
           a == TiedTo[Peer(s)]
       IN  IF msg.tag = "downstream"
           THEN /\ FromSocket(a, Peer(s), msg.op, queue)
                /\ UNCHANGED subscribers
           ELSE /\ subscribers' = [subscribers EXCEPT
                                      ![a] = Off(@, Peer(s))]
                /\ UNCHANGED <<list, index, nextTimestamp, queue, error,
                               log, applied>>
    /\ UNCHANGED <<created, born, gen, dups, nextUserId, userId,
                   trial>>
    /\ UNCHANGED editorVars

NextSocket ==
    \/ /\ Budget(MaxSocket)
       /\ \E r \in Replicas, t \in KnownTimestamps :
             \E a \in Atoms(r) : AddRight(r, t, a)
    \/ /\ Budget(MaxSocket)
       /\ \E r \in Replicas, t \in KnownTimestamps : Remove(r, t)
    \/ \E q \in Replicas : DeliverToReplica(q)
    \/ \E q \in Replicas : DeliverToSocket(q)
    \/ \E s \in DOMAIN TiedTo : SocketDeliver(s)
    \/ \E s \in DOMAIN TiedTo : EmitDisconnect(s)

SpecSocket == InitSocket /\ [][NextSocket]_vars

\* ----------------------------------------------------------------- server
\* index.js: doc = new RGA(0), nextUserId = 0, nobody connected
InitServer ==
    /\ created = {Central}
    /\ list = [r \in Replicas |-> EmptyRga(r).list]
    /\ index = [r \in Replicas |-> EmptyRga(r).index]
    /\ nextTimestamp = [r \in Replicas |-> EmptyRga(r).nextTimestamp]
    /\ subscribers = [r \in Replicas |-> <<>>]
    /\ queue = [r \in Replicas |-> <<>>]
    /\ error = NoError
    /\ born = [r \in Replicas |-> <<>>]
    /\ gen = {}
    /\ log = [r \in Replicas |-> {}]
    /\ dups = 0
    /\ attached = {}
    /\ editor = [r \in Replicas |-> EmptyLines]
    /\ lastText = [r \in Replicas |-> <<>>]
    /\ changes = [r \in Replicas |-> 0]
    /\ listeners = [r \in Replicas |-> IF r \in attached THEN 1 ELSE 0]
    /\ typed = 0
    /\ idle = 0
    /\ InitSockets
    /\ trial = Untried
    /\ applied = [r \in Replicas |-> <<>>]

\* The socket of the connection the server gets next
NextSocketEnd == 10 + 2 * nextUserId

\* io.on('connection'): userId = nextUserId++, the welcome message, and
\* RGA.tieToSocket(doc, socket)
Connection ==
    /\ nextUserId < MaxUsers
    /\ nextUserId' = nextUserId + 1
    /\ userId' = [userId EXCEPT ![NextSocketEnd] = nextUserId]
    /\ buffer' = [buffer EXCEPT ![NextSocketEnd] =
                     Append(@, [tag |-> "welcome", id |-> nextUserId,
                                history |-> History(list[Central])])]
    /\ subscribers' = [subscribers EXCEPT
                          ![Central] = Append(@, NextSocketEnd)]
    /\ UNCHANGED <<created, list, index, nextTimestamp, queue, error, born,
                   gen, log, dups, applied, trial>>
    /\ UNCHANGED editorVars

\* The first timestamp of a replica with this id that doc does not hold
Mints(id) ==
    LET free == {k \in 0..MaxUsers :
                    Shl(k, MAX_REPLICA_ID_BITS) + id
                        \notin DOMAIN index[Central]}
    IN  {Shl(k, MAX_REPLICA_ID_BITS) + id :
            k \in {j \in free : \A i \in free : j <= i}}

\* A downstream message of the client on socket s reaches the server: the
\* listener of tieToSocket runs, doc.downstream(a_s, op).  The client sends
\* an addRight of a character with a timestamp made from the id it was given,
\* next to something the document holds, or a remove of such a thing.
FromClient(s, op) ==
    /\ userId[s] # NoUser
    /\ Len(applied[Central]) < MaxUsers
    /\ FromSocket(Central, s, op, queue)
    /\ UNCHANGED <<created, subscribers, born, gen, dups, trial>>
    /\ UNCHANGED <<editorVars, socketVars>>

ClientOps(s) ==
    {AddRightOp(t, w, a) :
        t \in DOMAIN index[Central],
        w \in Mints(userId[s]),
        a \in {"X"}}
    \cup {RemoveOp(t) : t \in DOMAIN index[Central] \ {LEFT}}

\* The disconnect listener tieToSocket installed on s runs.
Disconnect(s) ==
    /\ s \in Range(subscribers[Central])
    /\ subscribers' = [subscribers EXCEPT ![Central] = Off(@, s)]
    /\ UNCHANGED <<created, list, index, nextTimestamp, queue, error, born,
                   gen, log, dups, applied, trial>>
    /\ UNCHANGED <<editorVars, socketVars>>

NextServer ==
    \/ Connection
    \/ \E s \in Sockets : \E op \in ClientOps(s) : FromClient(s, op)
    \/ DeliverToSocket(Central)
    \/ \E s \in Sockets : Disconnect(s)

SpecServer == InitServer /\ [][NextServer]_vars

\* --------------------------------------------------------------- RGA.diff
\* The strings of at most n characters over a two-letter alphabet
RECURSIVE StringsUpTo(_)
StringsUpTo(n) ==
    IF n = 0 THEN {<<>>}
    ELSE StringsUpTo(n - 1)
         \cup {Append(str, c) : str \in StringsUpTo(n - 1), c \in {"a", "b"}}

\* RGA.diff is about to be called with two strings.
InitDiff ==
    /\ created = Founders
    /\ list = [r \in Replicas |-> EmptyRga(r).list]
    /\ index = [r \in Replicas |-> EmptyRga(r).index]
    /\ nextTimestamp = [r \in Replicas |-> EmptyRga(r).nextTimestamp]
    /\ subscribers = [r \in Replicas |-> <<>>]
    /\ queue = [r \in Replicas |-> <<>>]
    /\ error = NoError
    /\ born = [r \in Replicas |-> <<>>]
    /\ gen = {}
    /\ log = [r \in Replicas |-> {}]
    /\ dups = 0
    /\ attached = {}
    /\ editor = [r \in Replicas |-> EmptyLines]
    /\ lastText = [r \in Replicas |-> <<>>]
    /\ changes = [r \in Replicas |-> 0]
    /\ listeners = [r \in Replicas |-> IF r \in attached THEN 1 ELSE 0]
    /\ typed = 0
    /\ idle = 0
    /\ InitSockets
    /\ \E s0, s1 \in StringsUpTo(MaxDiff) :
          trial = [s0 |-> s0, s1 |-> s1, done |-> FALSE, ops |-> <<>>]
    /\ applied = [r \in Replicas |-> <<>>]

\* RGA.diff(s0, s1) is called.
CallDiff ==
    /\ ~trial.done
    /\ IF CompareThrows(trial.s0, trial.s1)
       THEN /\ error' = "algorithm failed"
            /\ trial' = [trial EXCEPT !.done = TRUE]
       ELSE /\ error' = NoError
            /\ trial' = [trial EXCEPT !.done = TRUE,
                                      !.ops = Diff(trial.s0, trial.s1).ops]
    /\ UNCHANGED <<created, list, index, nextTimestamp, subscribers, queue,
                   born, gen, log, dups, applied>>
    /\ UNCHANGED <<editorVars, socketVars>>

NextDiff == CallDiff

SpecDiff == InitDiff /\ [][NextDiff]_vars

\* ------------------------------------------------- lib/rga.js, row and column
\* RGA.prototype._downstream of lib/rga.js at a replica nobody subscribed
\* to: the op is applied, and the forEach over _subscribers calls nobody.
\* st = [rga, out]; out collects the ops applied.
LibDownstream(st, op) ==
    LET s == IF op.type = "addRight" THEN DownstreamAddRight(st.rga, op)
             ELSE DownstreamRemove_Throws(st.rga, op)
    IN  [rga |-> s,
         out |-> IF s.error = NoError THEN Append(st.out, op) ELSE st.out]

\* The loop of getNodeAt, with `node` at position p and (l, c) in rc.  The
\* body reads node.removed right after node = node.next: a TypeError when
\* the list ends before (line, column) is reached, given as position 0.
RECURSIVE GetNodeAtFrom(_, _, _, _, _)
GetNodeAtFrom(l, p, rc, line, column) ==
    IF ~(rc.row < line \/ (rc.row = line /\ rc.column < column)) THEN p
    ELSE IF p + 1 > Len(l) THEN 0
    ELSE GetNodeAtFrom(l, p + 1,
                       IF l[p + 1].removed THEN rc
                       ELSE IF l[p + 1].atom = NL
                       THEN [row |-> rc.row + 1, column |-> 0]
                       ELSE [rc EXCEPT !.column = @ + 1],
                       line, column)

\* RGA.prototype.getNodeAt(line, column): the position of the node found
GetNodeAt(s, line, column) ==
    GetNodeAtFrom(s.list, 1, [row |-> 0, column |-> 0], line, column)

\* A loop that anchors every character at the node found by getNodeAt
RECURSIVE InsertRowColumnLoop_SameAnchor(_, _, _, _)
InsertRowColumnLoop_SameAnchor(st, u, text, i) ==
    IF i >= Len(text) \/ st.rga.error # NoError THEN st
    ELSE LET w == st.rga.nextTimestamp
         IN  InsertRowColumnLoop_SameAnchor(
                 LibDownstream([st EXCEPT !.rga.nextTimestamp =
                                              TimestampNext(w)],
                               AddRightOp(u, w, text[i + 1])),
                 u, text, i + 1)

\* The loop of insertRowColumn from text[i] on, u the anchor
RECURSIVE InsertRowColumnLoop(_, _, _, _)
InsertRowColumnLoop(st, u, text, i) ==
    IF i >= Len(text) \/ st.rga.error # NoError THEN st
    ELSE LET w == st.rga.nextTimestamp
         IN  InsertRowColumnLoop(
                 LibDownstream([st EXCEPT !.rga.nextTimestamp =
                                              TimestampNext(w)],
                               AddRightOp(u, w, text[i + 1])),
                 w, text, i + 1)

\* RGA.prototype.insertRowColumn(source, line, column, text)
InsertRowColumn(s, line, column, text) ==
    LET p == GetNodeAt(s, line, column)
    IN  IF p = 0
        THEN [rga |-> [s EXCEPT !.error = "TypeError: node is undefined"],
              out |-> <<>>]
        ELSE InsertRowColumnLoop([rga |-> s, out |-> <<>>],
                                 s.list[p].timestamp, text, 0)

\* `while (node && node.removed) node = node.next`, node at position p
RECURSIVE SkipRemoved(_, _)
SkipRemoved(l, p) ==
    IF p <= Len(l) /\ l[p].removed THEN SkipRemoved(l, p + 1) ELSE p

\* A loop that takes the next node whether it is removed or not
RECURSIVE RemoveRowColumnLoop_NoSkip(_, _, _, _)
RemoveRowColumnLoop_NoSkip(st, p, length, i) ==
    IF i >= length \/ st.rga.error # NoError THEN st
    ELSE LET q == p + 1
         IN  IF q > Len(st.rga.list)
             THEN [st EXCEPT !.rga.error =
                      "tried to remove more characters than exist in document"]
             ELSE RemoveRowColumnLoop_NoSkip(
                      LibDownstream(st, RemoveOp(st.rga.list[q].timestamp)),
                      q, length, i + 1)

\* The loop of removeRowColumn, `node` at position p, i characters removed
RECURSIVE RemoveRowColumnLoop(_, _, _, _)
RemoveRowColumnLoop(st, p, length, i) ==
    IF i >= length \/ st.rga.error # NoError THEN st
    ELSE LET q == SkipRemoved(st.rga.list, p + 1)
         IN  IF q > Len(st.rga.list)
             THEN [st EXCEPT !.rga.error =
                      "tried to remove more characters than exist in document"]
             ELSE RemoveRowColumnLoop(
                      LibDownstream(st, RemoveOp(st.rga.list[q].timestamp)),
                      q, length, i + 1)

\* RGA.prototype.removeRowColumn(source, line, column, length)
RemoveRowColumn(s, line, column, length) ==
    LET p == GetNodeAt(s, line, column)
    IN  IF p = 0
        THEN [rga |-> [s EXCEPT !.error = "TypeError: node is undefined"],
              out |-> <<>>]
        ELSE RemoveRowColumnLoop([rga |-> s, out |-> <<>>], p, length, 0)

\* The histories the generator arbitraryRGA of the tests can build with n
\* more nodes: each node goes right of the one before it, takes one of the
\* timestamps still free, and may be removed at once.
RECURSIVE ArbitraryHistory(_, _, _)
ArbitraryHistory(n, prev, free) ==
    IF n = 0 THEN {<<>>}
    ELSE UNION {{<<AddRightOp(prev, t, a)>> \o rm \o rest :
                    rm \in {<<>>, <<RemoveOp(t)>>},
                    rest \in ArbitraryHistory(n - 1, t, free \ {t})} :
                t \in free, a \in {"a", NL}}

\* p = new RGA(0, history) for a history of the generator, as the tests
\* build it before they make one call on it; the replica is tied to nobody.
InitRowColumn ==
    /\ created = {0}
    /\ \E len \in 0..MaxRowColumn :
          \E h \in ArbitraryHistory(len, LEFT, 0..(len - 1)) :
             /\ list = [r \in Replicas |->
                          IF r = 0 THEN NewRga(0, h).list
                          ELSE EmptyRga(r).list]
             /\ index = [r \in Replicas |->
                           IF r = 0 THEN NewRga(0, h).index
                           ELSE EmptyRga(r).index]
             /\ nextTimestamp = [r \in Replicas |->
                                   IF r = 0 THEN NewRga(0, h).nextTimestamp
                                   ELSE EmptyRga(r).nextTimestamp]
             /\ born = [r \in Replicas |-> IF r = 0 THEN h ELSE <<>>]
    /\ subscribers = [r \in Replicas |-> <<>>]
    /\ queue = [r \in Replicas |-> <<>>]
    /\ error = NoError
    /\ gen = {}
    /\ log = [r \in Replicas |-> {}]
    /\ dups = 0
    /\ attached = {}
    /\ editor = [r \in Replicas |-> EmptyLines]
    /\ lastText = [r \in Replicas |-> <<>>]
    /\ changes = [r \in Replicas |-> 0]
    /\ listeners = [r \in Replicas |-> IF r \in attached THEN 1 ELSE 0]
    /\ typed = 0
    /\ idle = 0
    /\ InitSockets
    /\ trial = Untried
    /\ applied = [r \in Replicas |-> <<>>]

\* What a call by row and column leaves behind at replica r
RowColumnDone(r, st) ==
    /\ list' = [list EXCEPT ![r] = st.rga.list]
    /\ index' = [index EXCEPT ![r] = st.rga.index]
    /\ nextTimestamp' = [nextTimestamp EXCEPT ![r] = st.rga.nextTimestamp]
    /\ error' = st.rga.error
    /\ log' = [log EXCEPT ![r] = @ \cup Range(st.out)]
    /\ UNCHANGED <<created, subscribers, queue, born, gen, dups, applied>>
    /\ UNCHANGED <<editorVars, socketVars>>

\* p.insertRowColumn(p, line, column, text) is called at replica r, on which
\* no call was made before; trial becomes the record of the call.
InsertRowColumnCall(r, line, column, text) ==
    /\ r \in created
    /\ trial = Untried
    /\ RowColumnDone(r, InsertRowColumn(Rga(r), line, column, text))
    /\ trial' = [call |-> "insertRowColumn", line |-> line,
                 column |-> column, text |-> text, length |-> 0]

\* p.removeRowColumn(p, line, column, length) is called at replica r.
RemoveRowColumnCall(r, line, column, length) ==
    /\ r \in created
    /\ trial = Untried
    /\ RowColumnDone(r, RemoveRowColumn(Rga(r), line, column, length))
    /\ trial' = [call |-> "removeRowColumn", line |-> line,
                 column |-> column, text |-> <<>>, length |-> length]

NextRowColumn ==
    \/ \E line, column \in 0..MaxRowColumn :
          \E text \in {<<>>, <<"X">>, <<NL, "Y">>} :
             InsertRowColumnCall(0, line, column, text)
    \/ \E line, column \in 0..MaxRowColumn :
          \E length \in 0..MaxRowColumn :
             RemoveRowColumnCall(0, line, column, length)

SpecRowColumn == InitRowColumn /\ [][NextRowColumn]_vars

\* The same system when an op may reach a replica twice.
NextDup ==
    \/ Next
    \/ \E r \in Replicas, sender \in Replicas :
          \E op \in log[r] : Redeliver(r, sender, op)

SpecDup == Init /\ [][NextDup]_vars

\* ----------------------------------------------------- editors and users
\* A chain of three: the plain replica 0 tied to 1, and 1 tied to 2, where 1
\* and 2 are AceEditorRGAs, each on an editor of its own.
Clients == {1, 2}

\* What an editor may hold before an AceEditorRGA is built on it
PriorTexts == {<<"o", NL, "t", NL>>, <<"q">>}

\* editor.setValue(text) on the editor that replica r will be built on; it
\* has no change listener yet, so no change event is deferred.
SetValueBefore(r, text) ==
    /\ r \notin created
    /\ typed < MaxAttach
    /\ editor' = [editor EXCEPT ![r] = SetValue(text)]
    /\ typed' = typed + 1
    /\ UNCHANGED <<created, list, index, nextTimestamp, subscribers, queue,
                   error, born, gen, log, dups, attached, lastText, changes,
                   listeners, idle, applied>>
    /\ UNCHANGED <<socketVars, trial>>

\* An AceEditorRGA constructor that leaves the editor as it finds it
NewAceEditorRGA_KeepsEditor(id, lines, h) ==
    LET s == NewRga(id, h)
    IN  [rga |-> s, lines |-> lines, lastText |-> Text(s.list), out |-> <<>>]

\* new RGA.AceEditorRGA(id, editor, h): the RGA constructor, then
\* _lastText = this.text() and editor.setValue(_lastText); the change
\* listener is installed after the setValue.
NewAceEditorRGA(id, lines, h) ==
    LET s == NewRga(id, h)
    IN  [rga |-> s,
         lines |-> IF s.error = NoError THEN SetValue(Text(s.list)) ELSE lines,
         lastText |-> Text(s.list), out |-> <<>>]

\* new RGA.AceEditorRGA(id, editor, h) with h undefined or p.history()
Attach(id, h) ==
    /\ id \in Replicas \ created
    /\ LET e == NewAceEditorRGA(id, editor[id], h)
       IN  IF e.rga.error # NoError
           THEN /\ error' = e.rga.error
                /\ UNCHANGED <<created, list, index, nextTimestamp, born,
                               log, applied, attached, editor, lastText,
                               changes, listeners>>
           ELSE /\ list' = [list EXCEPT ![id] = e.rga.list]
                /\ index' = [index EXCEPT ![id] = e.rga.index]
                /\ nextTimestamp' = [nextTimestamp EXCEPT
                                        ![id] = e.rga.nextTimestamp]
                /\ born' = [born EXCEPT ![id] = h]
                /\ log' = [log EXCEPT ![id] = {h[i] : i \in 1..Len(h)}]
                /\ applied' = [applied EXCEPT ![id] =
                                  [i \in 1..Len(h) |->
                                      [sender |-> id, op |-> h[i]]]]
                /\ created' = created \cup {id}
                /\ attached' = attached \cup {id}
                /\ editor' = [editor EXCEPT ![id] = e.lines]
                /\ lastText' = [lastText EXCEPT ![id] = e.lastText]
                /\ changes' = [changes EXCEPT ![id] = @ + listeners[id]]
                /\ listeners' = [listeners EXCEPT ![id] = @ + 1]
                /\ error' = NoError
    /\ UNCHANGED <<subscribers, queue, gen, dups, typed, idle>>
    /\ UNCHANGED <<socketVars, trial>>

\* The founders edit, and an editor that already holds some text gets an
\* AceEditorRGA, empty or with the history of a founder.
NextAttach ==
    \/ /\ Budget(MaxAttach)
       /\ \E r \in Replicas, t \in KnownTimestamps :
             \E a \in Atoms(r) \cup {NL} : AddRight(r, t, a)
    \/ /\ Budget(MaxAttach)
       /\ \E r \in Replicas, t \in KnownTimestamps : Remove(r, t)
    \/ \E q \in Replicas : Deliver(q)
    \/ \E r \in Replicas, text \in PriorTexts : SetValueBefore(r, text)
    \/ \E id \in Replicas :
          \/ Attach(id, <<>>)
          \/ \E p \in created : Attach(id, History(list[p]))

SpecAttach == Init /\ [][NextAttach]_vars

\* The documents the chain may start from
Seeds == {<<>>, <<"H", NL>>}

\* The history of a replica with id 0 into which str was typed from left to
\* right, each character after the one before
RECURSIVE TypedFrom(_, _)
TypedFrom(str, j) ==
    IF j >= Len(str) THEN <<>>
    ELSE <<AddRightOp(IF j = 0 THEN LEFT
                      ELSE Shl(j - 1, MAX_REPLICA_ID_BITS),
                      Shl(j, MAX_REPLICA_ID_BITS), str[j + 1])>>
         \o TypedFrom(str, j + 1)

InitEditor ==
    /\ created = Replicas
    /\ \E seed \in Seeds :
          /\ born = [r \in Replicas |-> TypedFrom(seed, 0)]
          /\ log = [r \in Replicas |-> Range(TypedFrom(seed, 0))]
    /\ list = [r \in Replicas |-> NewRga(r, born[r]).list]
    /\ index = [r \in Replicas |-> NewRga(r, born[r]).index]
    /\ nextTimestamp = [r \in Replicas |-> NewRga(r, born[r]).nextTimestamp]
    /\ subscribers = [r \in Replicas |->
                        IF r = 0 THEN <<1>> ELSE IF r = 1 THEN <<0, 2>>
                        ELSE <<1>>]
    /\ queue = [r \in Replicas |-> <<>>]
    /\ error = NoError
    /\ gen = {}
    /\ dups = 0
    /\ attached = Clients
    /\ editor = [r \in Replicas |->
                    IF r \in Clients THEN SetValue(Text(list[r]))
                    ELSE EmptyLines]
    /\ lastText = [r \in Replicas |->
                      IF r \in Clients THEN Text(list[r]) ELSE <<>>]
    /\ changes = [r \in Replicas |-> 0]
    /\ listeners = [r \in Replicas |-> IF r \in attached THEN 1 ELSE 0]
    /\ typed = 0
    /\ idle = 0
    /\ InitSockets
    /\ trial = Untried
    /\ applied = [r \in Replicas |->
                     [i \in 1..Len(born[r]) |->
                         [sender |-> r, op |-> born[r][i]]]]

\* What each user types
EditorAtoms(r) == Atoms(r) \cup {NL}

\* An editor-attached replica r as one value
Ace(r) == [rga |-> Rga(r), lines |-> editor[r], lastText |-> lastText[r],
           out |-> <<>>, listeners |-> listeners[r], events |-> 0]

\* The deferred callbacks for the ops in `out`, in the order they were handed
\* to _downstream
RECURSIVE BroadcastAll(_, _, _)
BroadcastAll(subs, out, i) ==
    IF i > Len(out) THEN <<>>
    ELSE Broadcast(subs, out[i].source, out[i].op, 1)
         \o BroadcastAll(subs, out, i + 1)

\* The ops of out that did not come from s, applied to rga one by one
RECURSIVE ApplyAll(_, _, _, _)
ApplyAll(rga, out, s, i) ==
    IF i > Len(out) THEN rga
    ELSE ApplyAll(IF out[i].source # s THEN ApplyOp(rga, out[i].op) ELSE rga,
                  out, s, i + 1)

\* The handler's state with the _downstream of lib/rga.js, which calls a
\* sink on the spot instead of deferring the call
Settle_Synchronous(r, e, q0) ==
    LET sinks == Range(subscribers[r]) \ attached
        at(x) == IF x = r THEN e.rga
                 ELSE IF x \in sinks THEN ApplyAll(Rga(x), e.out, x, 1)
                 ELSE Rga(x)
        from(x) == SelectSeq(e.out, LAMBDA o : o.source # x)
        later == SelectSeq(subscribers[r], LAMBDA x : x \in attached)
    IN  /\ list' = [x \in Replicas |-> at(x).list]
        /\ index' = [x \in Replicas |-> at(x).index]
        /\ nextTimestamp' = [x \in Replicas |-> at(x).nextTimestamp]
        /\ error' = e.rga.error
        /\ editor' = [editor EXCEPT ![r] = e.lines]
        /\ lastText' = [lastText EXCEPT ![r] = e.lastText]
        /\ listeners' = [listeners EXCEPT ![r] = e.listeners]
        /\ log' = [x \in Replicas |->
                      IF x = r
                      THEN log[x] \cup {e.out[i].op : i \in 1..Len(e.out)}
                      ELSE IF x \in sinks
                      THEN log[x] \cup {from(x)[i].op : i \in 1..Len(from(x))}
                      ELSE log[x]]
        /\ applied' = [x \in Replicas |->
                          IF x = r
                          THEN applied[x] \o
                               [i \in 1..Len(e.out) |->
                                   [sender |-> e.out[i].source,
                                    op |-> e.out[i].op]]
                          ELSE IF x \in sinks
                          THEN applied[x] \o
                               [i \in 1..Len(from(x)) |->
                                   [sender |-> r, op |-> from(x)[i].op]]
                          ELSE applied[x]]
        /\ gen' = gen \cup {[op |-> e.out[i].op, origin |-> r,
                              seen |-> e.out[i].seen] :
                                i \in {k \in 1..Len(e.out) : e.out[k].source = r}}
        /\ queue' = [q0 EXCEPT ![r] = @ \o BroadcastAll(later, e.out, 1)]

\* The state replica r is left in by a handler that ended as e.
Settle(r, e, q0) ==
    /\ list' = [list EXCEPT ![r] = e.rga.list]
    /\ index' = [index EXCEPT ![r] = e.rga.index]
    /\ nextTimestamp' = [nextTimestamp EXCEPT ![r] = e.rga.nextTimestamp]
    /\ error' = e.rga.error
    /\ editor' = [editor EXCEPT ![r] = e.lines]
    /\ lastText' = [lastText EXCEPT ![r] = e.lastText]
    /\ listeners' = [listeners EXCEPT ![r] = e.listeners]
    /\ log' = [log EXCEPT ![r] = @ \cup {e.out[i].op : i \in 1..Len(e.out)}]
    /\ applied' = [applied EXCEPT ![r] =
                      @ \o [i \in 1..Len(e.out) |->
                               [sender |-> e.out[i].source, op |-> e.out[i].op]]]
    /\ gen' = gen \cup {[op |-> e.out[i].op, origin |-> r,
                          seen |-> e.out[i].seen] :
                            i \in {k \in 1..Len(e.out) : e.out[k].source = r}}
    /\ queue' = [q0 EXCEPT ![r] = @ \o BroadcastAll(subscribers[r], e.out, 1)]

\* The places of the document: before each character and at each line end
Places(lines) ==
    {[row |-> row, column |-> column] :
        row \in 0..(Len(lines) - 1), column \in 0..MaxEdits}

\* The user types ch at loc: editor.insert(loc, ch), which defers one call
\* of each change listener registered.
UserInsert(r, loc, ch) ==
    /\ r \in attached
    /\ loc.row < Len(editor[r])
    /\ loc.column <= Len(editor[r][loc.row + 1])
    /\ editor' = [editor EXCEPT ![r] = Insert(@, loc, <<ch>>)]
    /\ changes' = [changes EXCEPT ![r] = @ + listeners[r]]
    /\ typed' = typed + 1
    /\ UNCHANGED <<created, list, index, nextTimestamp, subscribers, queue,
                   error, born, gen, log, dups, attached, lastText,
                   listeners, idle, applied>>
    /\ UNCHANGED <<socketVars, trial>>

\* The user deletes the character at loc, a line end included:
\* editor.remove(span)
UserRemove(r, loc) ==
    /\ r \in attached
    /\ loc.row < Len(editor[r])
    /\ LET line == editor[r][loc.row + 1]
           span == [start |-> loc,
                    end |-> IF loc.column = Len(line)
                            THEN [row |-> loc.row + 1, column |-> 0]
                            ELSE [row |-> loc.row,
                                  column |-> loc.column + 1]]
       IN  /\ \/ loc.column < Len(line)
              \/ loc.column = Len(line) /\ loc.row + 1 < Len(editor[r])
           /\ editor' = [editor EXCEPT ![r] = RemoveSpan(@, span)]
    /\ changes' = [changes EXCEPT ![r] = @ + listeners[r]]
    /\ typed' = typed + 1
    /\ UNCHANGED <<created, list, index, nextTimestamp, subscribers, queue,
                   error, born, gen, log, dups, attached, lastText,
                   listeners, idle, applied>>
    /\ UNCHANGED <<socketVars, trial>>

\* A deferred change event runs: _changeCallback, that is _takeUserEdits
ChangeEvent(r) ==
    /\ r \in attached
    /\ changes[r] > 0
    /\ \E e \in {TakeUserEdits(Ace(r))} :
          /\ Settle(r, e, queue)
          /\ changes' = [changes EXCEPT ![r] = @ - 1 + e.events]
    /\ idle' = IF GetValue(editor[r]) = lastText[r] THEN idle + 1 ELSE idle
    /\ UNCHANGED <<created, subscribers, born, dups, attached, typed>>
    /\ UNCHANGED <<socketVars, trial>>

\* The oldest deferred callback of q's queue runs and its sink is an
\* AceEditorRGA: sink.downstream(q, op) is _customDownstream.
DeliverEditor(q) ==
    /\ q \in created
    /\ queue[q] # <<>>
    /\ queue[q][1].sink \in attached
    /\ \E e \in {CustomDownstream(Ace(queue[q][1].sink), q, queue[q][1].op)} :
          /\ Settle(queue[q][1].sink, e, [queue EXCEPT ![q] = Tail(@)])
          /\ changes' = [changes EXCEPT ![queue[q][1].sink] = @ + e.events]
    /\ UNCHANGED <<created, subscribers, born, dups, attached, typed, idle>>
    /\ UNCHANGED <<socketVars, trial>>

NextEditor ==
    \/ /\ typed < MaxEdits
       /\ \E r \in Clients : \E loc \in Places(editor[r]) :
             \E ch \in EditorAtoms(r) : UserInsert(r, loc, ch)
    \/ /\ typed < MaxEdits
       /\ \E r \in Clients : \E loc \in Places(editor[r]) : UserRemove(r, loc)
    \/ \E r \in Clients : ChangeEvent(r)
    \/ \E q \in Replicas : Deliver(q)
    \/ \E q \in Replicas : DeliverEditor(q)

SpecEditor == InitEditor /\ [][NextEditor]_vars

\* The test "can cope with editor updates being received slowly": x is the
\* plain replica 0 holding "HOME RUN", y the editor-attached replica 1 built
\* from x.history() and tied to x.  The user deletes characters in the
\* editor while x inserts one '*' somewhere, and the editor's change events
\* may run late.
HomeRun == <<"H", "O", "M", "E", " ", "R", "U", "N">>

Space == Shl(4, MAX_REPLICA_ID_BITS)

InitHomeRun ==
    /\ created = Founders
    /\ born = [r \in Replicas |->
                  IF r \in Founders THEN TypedFrom(HomeRun, 0) ELSE <<>>]
    /\ log = [r \in Replicas |-> Range(born[r])]
    /\ list = [r \in Replicas |-> NewRga(r, born[r]).list]
    /\ index = [r \in Replicas |-> NewRga(r, born[r]).index]
    /\ nextTimestamp = [r \in Replicas |-> NewRga(r, born[r]).nextTimestamp]
    /\ subscribers = [r \in Replicas |->
                        IF r = 0 THEN <<1>> ELSE IF r = 1 THEN <<0>>
                        ELSE <<>>]
    /\ queue = [r \in Replicas |-> <<>>]
    /\ error = NoError
    /\ gen = {}
    /\ dups = 0
    /\ attached = {1}
    /\ editor = [r \in Replicas |->
                    IF r = 1 THEN SetValue(Text(list[r])) ELSE EmptyLines]
    /\ lastText = [r \in Replicas |->
                      IF r = 1 THEN Text(list[r]) ELSE <<>>]
    /\ changes = [r \in Replicas |-> 0]
    /\ listeners = [r \in Replicas |-> IF r \in attached THEN 1 ELSE 0]
    /\ typed = 0
    /\ idle = 0
    /\ InitSockets
    /\ trial = Untried
    /\ applied = [r \in Replicas |->
                     [i \in 1..Len(born[r]) |->
                         [sender |-> r, op |-> born[r][i]]]]

\* Every place of the editor's document
AllPlaces(lines) ==
    {[row |-> row, column |-> column] :
        row \in 0..(Len(lines) - 1), column \in 0..Len(HomeRun)}

NextHomeRun ==
    \/ /\ typed < MaxRace
       /\ \E loc \in AllPlaces(editor[1]) : UserRemove(1, loc)
    \/ /\ \A g \in gen : g.origin # 0
       /\ \E t \in KnownTimestamps : AddRight(0, t, "*")
    \/ ChangeEvent(1)
    \/ \E q \in Replicas : Deliver(q)
    \/ \E q \in Replicas : DeliverEditor(q)

SpecHomeRun == InitHomeRun /\ [][NextHomeRun]_vars

\* The same pair with a document of two rows, "H" and an empty one: x is the
\* plain replica 0, y the editor-attached replica 1 built from x.history()
\* and tied to x.  x makes one call of addRight or remove, y's user types
\* the letter Y and deletes characters and line ends in the editor.
InitRemote ==
    /\ created = Founders
    /\ born = [r \in Replicas |->
                  IF r \in Founders THEN TypedFrom(<<"H", NL>>, 0) ELSE <<>>]
    /\ log = [r \in Replicas |-> Range(born[r])]
    /\ list = [r \in Replicas |-> NewRga(r, born[r]).list]
    /\ index = [r \in Replicas |-> NewRga(r, born[r]).index]
    /\ nextTimestamp = [r \in Replicas |-> NewRga(r, born[r]).nextTimestamp]
    /\ subscribers = [r \in Replicas |->
                        IF r = 0 THEN <<1>> ELSE IF r = 1 THEN <<0>>
                        ELSE <<>>]
    /\ queue = [r \in Replicas |-> <<>>]
    /\ error = NoError
    /\ gen = {}
    /\ dups = 0
    /\ attached = {1}
    /\ editor = [r \in Replicas |->
                    IF r = 1 THEN SetValue(Text(list[r])) ELSE EmptyLines]
    /\ lastText = [r \in Replicas |->
                      IF r = 1 THEN Text(list[r]) ELSE <<>>]
    /\ changes = [r \in Replicas |-> 0]
    /\ listeners = [r \in Replicas |-> IF r \in attached THEN 1 ELSE 0]
    /\ typed = 0
    /\ idle = 0
    /\ InitSockets
    /\ trial = Untried
    /\ applied = [r \in Replicas |->
                     [i \in 1..Len(born[r]) |->
                         [sender |-> r, op |-> born[r][i]]]]

NextRemote ==
    \/ /\ typed < MaxRemote
       /\ \E loc \in AllPlaces(editor[1]) :
             \E ch \in Atoms(1) : UserInsert(1, loc, ch)
    \/ /\ typed < MaxRemote
       /\ \E loc \in AllPlaces(editor[1]) : UserRemove(1, loc)
    \/ /\ \A g \in gen : g.origin # 0
       /\ \E t \in KnownTimestamps :
             \E a \in EditorAtoms(0) : AddRight(0, t, a)
    \/ /\ \A g \in gen : g.origin # 0
       /\ \E t \in KnownTimestamps : Remove(0, t)
    \/ ChangeEvent(1)
    \/ \E q \in Replicas : Deliver(q)
    \/ \E q \in Replicas : DeliverEditor(q)

SpecRemote == InitRemote /\ [][NextRemote]_vars

\* ------------------------------------------------- counters near 2^31
\* The founders, tied, in a system whose other replicas have been minting
\* timestamps for long: ops arrive that carry timestamps with counters up
\* to the largest a 32-bit timestamp can hold.
FarReplicas == {2, Pow2(MAX_REPLICA_ID_BITS) - 1}

LastCounter == Pow2(31 - MAX_REPLICA_ID_BITS) - 1

ForeignTimestamps ==
    {Shl(c, MAX_REPLICA_ID_BITS) + f :
        c \in {1, LastCounter - 1, LastCounter}, f \in FarReplicas}

\* r.downstream(far, op) for an addRight minted by far replica `far`, which
\* is not a subscriber of r
Receive(r, far, t, a) ==
    /\ r \in created
    /\ t % Pow2(MAX_REPLICA_ID_BITS) = far
    /\ \A q \in created : t \notin DOMAIN index[q]
    /\ Downstream(r, far, AddRightOp(LEFT, t, a), nextTimestamp[r], queue)
    /\ UNCHANGED <<created, subscribers, born, gen, dups>>
    /\ UNCHANGED <<editorVars, socketVars, trial>>

\* Calls stop at the last timestamp whose successor a 32-bit integer holds;
\* _nextTimestamp += 65536 is an addition of JS numbers, which does not wrap.
NextCounter ==
    \/ /\ Cardinality(UNION {log[q] : q \in created}) < MaxForeign
       /\ \E r \in Founders, far \in FarReplicas, t \in ForeignTimestamps :
             Receive(r, far, t, "Z")
    \/ /\ Cardinality(UNION {log[q] : q \in created}) < MaxForeign
       /\ \E r \in Founders : \E a \in Atoms(r) :
             /\ nextTimestamp[r] < Shl(LastCounter, MAX_REPLICA_ID_BITS)
             /\ AddRight(r, LEFT, a)
    \/ \E q \in Replicas : Deliver(q)

SpecCounter == Init /\ [][NextCounter]_vars

\* ------------------------------------------------------------- type check
TypeOK ==
    /\ created \subseteq Replicas
    /\ \A r \in Replicas : Len(list[r]) >= 1 /\ list[r][1].timestamp = LEFT
    /\ \A r \in Replicas : \A t \in DOMAIN index[r] :
           index[r][t] \in 1..Len(list[r])
    /\ dups \in 0..MaxDup

\* ------------------------------------------------------- claim vocabulary
GenAdds == {g \in gen : g.op.type = "addRight"}
GenRemoves == {g \in gen : g.op.type = "remove"}

\* Neither op's author had the other's node when it generated its own.
ConcurrentAdds(g1, g2) ==
    /\ g1.origin # g2.origin
    /\ g1.op.w.timestamp \notin g2.seen
    /\ g2.op.w.timestamp \notin g1.seen

Knows(r, t) == t \in DOMAIN index[r]
Pos(r, t) == index[r][t]
NodeOf(r, t) == list[r][index[r][t]]

\* The nodes after the sentinel: what history() and text() enumerate.
NodeList(l) == Tail(l)

QueuesEmpty == \A r \in Replicas : queue[r] = <<>>

\* --------------------------------------------------------------------- C1
\* C1: any two replicas that have applied the same set of ops, in whatever
\* order the transport delivered them, hold the same node list (timestamps,
\* atoms and removed flags, in order) and return the same text().
C1_StrongEventualConsistency ==
    \A r1 \in created, r2 \in created :
        log[r1] = log[r2] =>
            /\ list[r1] = list[r2]
            /\ Text(list[r1]) = Text(list[r2])

\* The founders hold the same ops, a remove among them, although replica 1
\* was handed two ops of replica 0 in the opposite order: it typed c when it
\* had b but not yet the older a.
C1_Witness ==
    /\ log[0] = log[1]
    /\ \E a \in GenAdds, b \in GenAdds, c \in GenAdds :
          /\ a.origin = 0 /\ b.origin = 0 /\ c.origin = 1
          /\ a.op.w.timestamp \in b.seen
          /\ b.op.w.timestamp \in c.seen
          /\ a.op.w.timestamp \notin c.seen
          /\ {a.op, b.op, c.op} \subseteq log[0]
    /\ \E g \in GenRemoves : g.op \in log[0] /\ g.op.t # LEFT
    /\ Len(Text(list[0])) = 2

\* --------------------------------------------------------------------- C2
\* C2: when two replicas each addRight after the same anchor before either
\* has the other's node, every replica that ends up with both nodes holds
\* the one with the larger timestamp first; two empty tied replicas, id 0
\* typing X and id 1 typing Y after LEFT, both end with "YX".
C2_ConcurrentInsertsCommute ==
    /\ \A g1 \in GenAdds, g2 \in GenAdds :
          (ConcurrentAdds(g1, g2) /\ g1.op.t = g2.op.t
              /\ g1.op.w.timestamp > g2.op.w.timestamp) =>
             \A r \in created :
                (Knows(r, g1.op.w.timestamp) /\ Knows(r, g2.op.w.timestamp)) =>
                    Pos(r, g1.op.w.timestamp) < Pos(r, g2.op.w.timestamp)
    /\ (/\ gen = {[op |-> AddRightOp(LEFT, 0, "X"), origin |-> 0,
                   seen |-> {LEFT}],
                  [op |-> AddRightOp(LEFT, 1, "Y"), origin |-> 1,
                   seen |-> {LEFT}]}
        /\ QueuesEmpty)
       => \A r \in Founders : Text(list[r]) = <<"Y", "X">>

C2_Witness ==
    /\ gen = {[op |-> AddRightOp(LEFT, 0, "X"), origin |-> 0, seen |-> {LEFT}],
              [op |-> AddRightOp(LEFT, 1, "Y"), origin |-> 1, seen |-> {LEFT}]}
    /\ QueuesEmpty
    /\ Text(list[0]) = <<"Y", "X">>
    /\ Text(list[1]) = <<"Y", "X">>

\* --------------------------------------------------------------------- C3
\* C3: a remove delivered for a node that is already a tombstone changes
\* nothing and throws nothing; on an editor-attached replica it leaves the
\* editor as it was (what the handler does is what folding the pending user
\* edits alone would have done).  Once two replicas that each removed the
\* same node have exchanged their removes, both hold the node removed, once,
\* their texts are equal, and nothing was thrown.
HeadDelivered(q) == queue[q] # <<>> /\ queue'[q] = Tail(queue[q])

\* The sink as its handler finds it when it turns to the op itself
BeforeOp(r) == IF r \in attached THEN TakeUserEdits(Ace(r)) ELSE Ace(r)

RemoveOfTombstoneDelivered(q) ==
    /\ HeadDelivered(q)
    /\ queue[q][1].op.type = "remove"
    /\ LET e == BeforeOp(queue[q][1].sink)
           t == queue[q][1].op.t
       IN  /\ e.rga.error = NoError
           /\ t \in DOMAIN e.rga.index
           /\ e.rga.list[e.rga.index[t]].removed

C3_Step ==
    \A q \in created :
        RemoveOfTombstoneDelivered(q) =>
            LET r == queue[q][1].sink
                e == BeforeOp(r)
            IN  /\ error' = NoError
                /\ list'[r] = e.rga.list
                /\ index'[r] = e.rga.index
                /\ nextTimestamp'[r] = e.rga.nextTimestamp
                /\ editor'[r] = editor[r]
                /\ r \in attached => GetValue(editor'[r]) = Text(list'[r])

C3_Settled ==
    \A g1 \in GenRemoves, g2 \in GenRemoves :
        (/\ g1.origin # g2.origin /\ g1.op = g2.op
         /\ QueuesEmpty /\ \A r \in Replicas : changes[r] = 0) =>
            /\ \A r \in created :
                  /\ NodeOf(r, g1.op.t).removed
                  /\ Cardinality({i \in 1..Len(list[r]) :
                                     list[r][i].timestamp = g1.op.t}) = 1
                  /\ Text(list[r]) = Text(list[g1.origin])
            /\ \A r \in attached : GetValue(editor[r]) = Text(list[r])
            /\ error = NoError

C3_RepeatedRemoveIsNoOp == [][C3_Step]_vars /\ []C3_Settled

\* The users at 1 and at 2 each deleted the same character before the
\* other's remove arrived; every remove has since been delivered, to the
\* editor-attached 1 and 2 and, relayed, to the plain 0.
C3_Witness ==
    \E g1 \in GenRemoves, g2 \in GenRemoves :
        /\ g1.origin = 1 /\ g2.origin = 2 /\ g1.op = g2.op
        /\ QueuesEmpty /\ \A r \in Replicas : changes[r] = 0
        /\ \A r \in created : NodeOf(r, g1.op.t).removed
        /\ \A r \in created : log[r] = log[0]
        /\ GetValue(editor[1]) = GetValue(editor[2])
        /\ GetValue(editor[1]) # <<>>
        /\ error = NoError

\* --------------------------------------------------------------------- C4
\* C4: applying a downstream addRight whose timestamp is already in the
\* index leaves the node list, the index and text() as they were and throws
\* nothing.
C4_RepeatedAddRightIsNoOp ==
    [][dups' = dups + 1 =>
          (\A r \in created :
              /\ list'[r] = list[r]
              /\ index'[r] = index[r]
              /\ Text(list[r])' = Text(list[r]))
          /\ error' = NoError]_vars

\* --------------------------------------------------------------------- C5
\* C5: remove(t) commutes with an addRight that is on its way to the same
\* replica, also one anchored at t: either order gives the same list, index
\* and text and throws nothing; an addRight whose anchor is already a
\* tombstone is accepted and its node goes behind the tombstone, with only
\* larger timestamps in between.
InFlightTo(r) ==
    UNION {{queue[q][i].op :
               i \in {j \in 1..Len(queue[q]) : queue[q][j].sink = r}} :
           q \in created}

C5_RemoveCommutesWithAddRight ==
    \A r \in created : \A ad \in InFlightTo(r) :
        (ad.type = "addRight" /\ Knows(r, ad.t)) =>
            /\ \A t \in DOMAIN index[r] :
                  LET rmad == ApplyOp(ApplyOp(Rga(r), RemoveOp(t)), ad)
                      adrm == ApplyOp(ApplyOp(Rga(r), ad), RemoveOp(t))
                  IN  /\ rmad = adrm
                      /\ rmad.error = NoError
                      /\ Text(rmad.list) = Text(adrm.list)
            /\ LET s == ApplyOp(ApplyOp(Rga(r), RemoveOp(ad.t)), ad)
                   a == s.index[ad.t]
                   w == s.index[ad.w.timestamp]
               IN  /\ s.error = NoError
                   /\ s.list[a].removed
                   /\ s.list[w] = Node(ad.w.timestamp, ad.w.atom)
                   /\ a < w
                   /\ \A k \in (a + 1)..(w - 1) :
                         s.list[k].timestamp > ad.w.timestamp

\* The joiner learnt from its history that t is removed, and has since been
\* handed an addRight anchored at t, which sits behind the tombstone.
C5_Witness ==
    /\ 2 \in created
    /\ error = NoError
    /\ \E g \in GenAdds :
          /\ g.op.t # LEFT
          /\ RemoveOp(g.op.t) \in Range(born[2])
          /\ g.op \notin Range(born[2])
          /\ \A h \in Range(born[2]) :
                h.type = "addRight" => h.w.timestamp # g.op.w.timestamp
          /\ Knows(2, g.op.w.timestamp)
          /\ NodeOf(2, g.op.t).removed
          /\ Pos(2, g.op.t) < Pos(2, g.op.w.timestamp)
          /\ \E r \in Founders : log[r] \subseteq log[2] \cup Range(born[2])
                                  /\ Text(list[r]) = Text(list[2])

\* --------------------------------------------------------------------- C6
\* C6: for every replica r and every valid id', the replica built by
\* new RGA(id', r.history()) is built without error and has the same node
\* list as r, tombstones included, and the same text().
ValidIds == {0, Pow2(MAX_REPLICA_ID_BITS) - 1}

C7_MintExceedsObserved ==
    /\ \A r \in created : \A t \in DOMAIN index[r] : nextTimestamp[r] > t
    /\ \A g \in GenAdds : \A t \in g.seen : g.op.w.timestamp > t
    /\ \A g1 \in GenAdds, g2 \in GenAdds :
          (g1.op.t = LEFT /\ g2.op.t = LEFT
              /\ g2.op.w.timestamp \in g1.seen) =>
             \A r \in created :
                (Knows(r, g1.op.w.timestamp) /\ Knows(r, g2.op.w.timestamp)) =>
                    Pos(r, g1.op.w.timestamp) < Pos(r, g2.op.w.timestamp)

\* Replica 0 has typed after LEFT having seen replica 1's node there: its
\* node, minted after that observation, is the first of the list.
C7_Witness ==
    \E g1 \in GenAdds, g2 \in GenAdds :
        /\ g1.origin = 0 /\ g2.origin = 1
        /\ g1.op.t = LEFT /\ g2.op.t = LEFT
        /\ g2.op.w.timestamp \in g1.seen
        /\ list[0][2].timestamp = g1.op.w.timestamp
        /\ g1.op.w.timestamp > g2.op.w.timestamp

\* --------------------------------------------------------------------- C8
\* C8: the counter of replica r always has r in its low 16 bits and is above
\* every timestamp r has minted, and every timestamp r minted has r in its
\* low 16 bits: the timestamps r mints are strictly increasing.
LowBits(t) == t % Pow2(MAX_REPLICA_ID_BITS)

C8_MintedIncreasing ==
    \A r \in created :
        /\ LowBits(nextTimestamp[r]) = r
        /\ \A g \in GenAdds :
              g.origin = r =>
                 /\ LowBits(g.op.w.timestamp) = r
                 /\ g.op.w.timestamp < nextTimestamp[r]
                 /\ \A g2 \in GenAdds :
                       (g2.origin = r /\ g2.op.w.timestamp \in g.seen) =>
                           g2.op.w.timestamp < g.op.w.timestamp

\* Replica 0 observed a foreign timestamp that moved its counter, minted,
\* and minted again.
C8_Witness ==
    \E g1 \in GenAdds, g2 \in GenAdds, g3 \in GenAdds :
        /\ g1.origin = 0 /\ g3.origin = 0 /\ g2.origin = 1
        /\ g2.op.w.timestamp \in g1.seen
        /\ g1.op.w.timestamp \in g3.seen
        /\ g1.op.w.timestamp = Pow2(MAX_REPLICA_ID_BITS)
        /\ g3.op.w.timestamp = 2 * Pow2(MAX_REPLICA_ID_BITS)

C10_SiblingsDescending ==
    \A r \in created : \A g1 \in GenAdds, g2 \in GenAdds :
        (/\ g1.op.t = g2.op.t
         /\ g1 # g2
         /\ Knows(r, g1.op.w.timestamp) /\ Knows(r, g2.op.w.timestamp)
         /\ Pos(r, g1.op.w.timestamp) < Pos(r, g2.op.w.timestamp))
        => g1.op.w.timestamp > g2.op.w.timestamp

\* Some replica holds three nodes that were all added after the same anchor
\* by more than one author.
C10_Witness ==
    \E r \in created : \E g1 \in GenAdds, g2 \in GenAdds, g3 \in GenAdds :
        /\ g1.op.t = g2.op.t /\ g2.op.t = g3.op.t
        /\ g1.origin # g2.origin
        /\ Knows(r, g1.op.w.timestamp) /\ Knows(r, g2.op.w.timestamp)
        /\ Knows(r, g3.op.w.timestamp)
        /\ Pos(r, g1.op.w.timestamp) < Pos(r, g2.op.w.timestamp)
        /\ Pos(r, g2.op.w.timestamp) < Pos(r, g3.op.w.timestamp)

\* -------------------------------------------------------------------- C11
\* C11: at every replica, after any sequence of operations, the nodes
\* reachable from left are exactly the nodes the index holds, left included:
\* every list node is the node the index keeps for its timestamp, and every
\* indexed timestamp names a list node.
C11_ListMatchesIndex ==
    \A r \in created :
        /\ \A i \in 1..Len(list[r]) :
              /\ list[r][i].timestamp \in DOMAIN index[r]
              /\ index[r][list[r][i].timestamp] = i
        /\ \A t \in DOMAIN index[r] :
              /\ index[r][t] \in 1..Len(list[r])
              /\ list[r][index[r][t]].timestamp = t

\* -------------------------------------------------------------------- C12
\* C12: tombstones are permanent: a timestamp whose indexed node is removed
\* at a replica is, after every step, still indexed there, its indexed node
\* still removed and still a node of the list.
C12_TombstonesPermanent ==
    [][\A r \in created : \A t \in DOMAIN index[r] :
          list[r][index[r][t]].removed =>
              /\ t \in DOMAIN index'[r]
              /\ index'[r][t] \in 1..Len(list'[r])
              /\ list'[r][index'[r][t]].timestamp = t
              /\ list'[r][index'[r][t]].removed]_vars

\* -------------------------------------------------------------------- C13
\* C13: at every replica the left sentinel is never removed, whatever local
\* or downstream remove is issued, one naming LEFT included; so a local
\* addRight(LEFT, atom) always passes its anchor test.
C13_LeftNeverRemoved ==
    \A r \in created :
        /\ ~list[r][1].removed
        /\ Lookup(Rga(r), LEFT)

\* -------------------------------------------------------------------- C14
\* C14: a replica that applies an op defers one delivery to each of its
\* subscribers other than the sink the op came in through, and to no one
\* else; no queued delivery hands an op back to the replica it was received
\* from; and every generated op is applied at most once at every replica,
\* exactly once at both founders when the queues have drained.
Count(seq, x) == Cardinality({i \in 1..Len(seq) : seq[i] = x})

AppliedOps(r) == [i \in 1..Len(applied[r]) |-> applied[r][i].op]

Generated(o) == {g \in gen : g.op = o}

\* Replica r applied exactly one more op in this step.
AppliedOne(r) ==
    /\ Len(applied'[r]) = Len(applied[r]) + 1
    /\ SubSeq(applied'[r], 1, Len(applied[r])) = applied[r]

C14_Step ==
    \A r \in created :
        AppliedOne(r) =>
            LET x == applied'[r][Len(applied'[r])]
                others == SelectSeq(subscribers[r],
                                    LAMBDA s : s # x.sender)
            IN  queue'[r] = queue[r]
                              \o [i \in 1..Len(others) |->
                                    [sink |-> others[i], op |-> x.op]]

\* The deliveries of op o waiting in r's queue for sink s are no more than
\* the times r applied o for a sender other than s.
C14_NoEcho ==
    \A r \in created : \A k \in 1..Len(queue[r]) :
        Count(queue[r], queue[r][k])
          <= Cardinality({i \in 1..Len(applied[r]) :
                             /\ applied[r][i].op = queue[r][k].op
                             /\ applied[r][i].sender # queue[r][k].sink})

C14_ExactlyOnce ==
    \A g \in gen : \A r \in created :
        /\ Count(AppliedOps(r), g.op) <= Cardinality(Generated(g.op))
        /\ (QueuesEmpty /\ r \in Founders) =>
               Count(AppliedOps(r), g.op) = Cardinality(Generated(g.op))

C14_SenderSuppression ==
    [][C14_Step]_vars /\ [](C14_NoEcho /\ C14_ExactlyOnce)

\* Replica 0, tied to 1 and to the joiner 2, applied an op it received from
\* 1 and passed it on to 2 alone; every replica has applied it once.
C14_Witness ==
    /\ 2 \in created
    /\ QueuesEmpty
    /\ \E g \in GenAdds :
          /\ g.origin = 1
          /\ g.op \notin Range(born[2])
          /\ \E i \in 1..Len(applied[0]) :
                applied[0][i] = [sender |-> 1, op |-> g.op]
          /\ \E i \in 1..Len(applied[2]) :
                applied[2][i] = [sender |-> 0, op |-> g.op]
          /\ \A r \in created : Count(AppliedOps(r), g.op) = 1

\* -------------------------------------------------------------------- C15
\* C15: broadcast is deferred.  A step in which a replica applies ops (a
\* downstream apply, _takeUserEdits, the handling of a remote op) touches
\* that replica alone: no sink runs inside it and no other replica's
\* operation is cut into.  Every delivery the replica owes a subscriber
\* stands in its queue afterwards as a task of its own, which runs in a
\* later step.
Touched(r) ==
    \/ list'[r] # list[r]
    \/ index'[r] # index[r]
    \/ nextTimestamp'[r] # nextTimestamp[r]
    \/ applied'[r] # applied[r]
    \/ lastText'[r] # lastText[r]

AppliedNow(r) == SubSeq(applied'[r], Len(applied[r]) + 1, Len(applied'[r]))

C15_Step ==
    /\ \A r \in created, s \in created :
          (Touched(r) /\ Touched(s)) => r = s
    /\ \A r \in created :
          applied'[r] # applied[r] =>
              /\ Len(applied'[r]) > Len(applied[r])
              /\ SubSeq(applied'[r], 1, Len(applied[r])) = applied[r]
              /\ \A k \in 1..Len(AppliedNow(r)) :
                    LET x == AppliedNow(r)[k]
                    IN  \A s \in Range(subscribers[r]) \ {x.sender} :
                           LET task == [sink |-> s, op |-> x.op]
                               owed == {j \in 1..Len(AppliedNow(r)) :
                                           /\ AppliedNow(r)[j].op = x.op
                                           /\ AppliedNow(r)[j].sender # s}
                           IN  /\ applied'[s] = applied[s]
                               /\ Count(queue'[r], task)
                                    = Count(queue[r], task) + Cardinality(owed)

Ops(seq) == [i \in 1..Len(seq) |-> seq[i].op]

Received(s, r) == Ops(SelectSeq(applied[s], LAMBDA x : x.sender = r))

Pending(r, s) == Ops(SelectSeq(queue[r], LAMBDA x : x.sink = s))

Stream(r, s) == Received(s, r) \o Pending(r, s)

C16_Step ==
    \A r \in created : \A s \in Range(subscribers[r]) :
        Stream(r, s)' = Stream(r, s)
                          \o Ops(SelectSeq(AppliedNow(r),
                                           LAMBDA x : x.sender # s))

C16_SubscriberOrder == [][C16_Step]_vars

\* Replica 2, subscribed to 0, has received two or more ops from 0, one of
\* them generated at replica 1, and replica 1 has received from 0 a
\* different sequence: the ops 0 did not get from it.
C16_Witness ==
    /\ 2 \in created /\ QueuesEmpty /\ error = NoError
    /\ Len(Received(2, 0)) >= 2
    /\ \E g \in gen : /\ g.origin = 1
                      /\ \E k \in 1..Len(Received(2, 0)) :
                            Received(2, 0)[k] = g.op
    /\ Received(1, 0) # <<>>
    /\ Received(1, 0) # Received(2, 0)

\* -------------------------------------------------------------------- C17
\* C17: a local addRight or remove that names a timestamp absent from the
\* called replica's index, or the timestamp of a tombstone, throws: no op is
\* ever generated for such a call, and the step in which the call throws
\* mints no timestamp, leaves every list, index and counter as it was and
\* puts nothing into any queue.
LocalErrors ==
    {"insertion point is not in the array",
     "insertion point is removed from the array",
     "can't remove node that doesn't exist"}

C17_Step ==
    /\ \A g \in gen' \ gen :
          /\ g.op.t \in DOMAIN index[g.origin]
          /\ ~list[g.origin][index[g.origin][g.op.t]].removed
    /\ (error' \in LocalErrors /\ error' # error) =>
          UNCHANGED <<list, index, nextTimestamp, queue, gen, log, applied>>

C17_LocalCallRejected == [][C17_Step]_vars

\* A remove of a tombstone has just been rejected at a replica that also
\* lacks a node another replica holds, with that node's op still on its way.
C17_Witness ==
    /\ error = "can't remove node that doesn't exist"
    /\ \E r \in created :
          /\ \E t \in DOMAIN index[r] : list[r][index[r][t]].removed
          /\ \E s \in created : DOMAIN index[s] \ DOMAIN index[r] # {}
    /\ ~QueuesEmpty

\* -------------------------------------------------------------------- C18
\* C18: a delivered addRight whose anchor, or a delivered remove whose
\* target, is not in the receiving replica's index throws.  No replica ever
\* applies such an op, and the step in which the delivery throws leaves
\* every list and index as it was and adds no callback to any queue: the op
\* goes to no subscriber of the replica that threw.
DownstreamErrors ==
    {"downstream: can't add next to unknown element!",
     "downstream: can't remove unknown element!"}

C18_Step ==
    /\ \A r \in created :
          \A k \in 1..Len(AppliedNow(r)) :
             AppliedNow(r)[k].op.t \in DOMAIN index[r]
    /\ (error' \in DownstreamErrors /\ queue' # queue) =>
          /\ UNCHANGED <<list, index, log, applied>>
          /\ \A r \in Replicas :
                \/ queue'[r] = queue[r]
                \/ /\ Len(queue'[r]) = Len(queue[r]) - 1
                   /\ \A x \in Range(queue'[r]) :
                         Count(queue'[r], x) <= Count(queue[r], x)

C18_UnknownReferenceAborts == [][C18_Step]_vars

\* An addRight generated at replica 1 overtook the op of its anchor on the
\* way to replica 0 and has just thrown there; replica 2 is subscribed to 0
\* and has not been sent the op.
C18_Witness ==
    /\ error = "downstream: can't add next to unknown element!"
    /\ 2 \in created
    /\ \E g \in GenAdds :
          /\ g.origin = 1
          /\ g.op \notin log[0] /\ g.op \notin log[2]
          /\ g.op.t \notin DOMAIN index[0]
          /\ \A r \in Replicas : \A k \in 1..Len(queue[r]) :
                queue[r][k].op # g.op

\* -------------------------------------------------------------------- C19
\* C19: on an editor-attached replica _lastText equals the replica's text
\* whenever no handler is running, the sync assertion never throws, and
\* when the handling of a remote op is over _lastText, the replica's text
\* and the editor's value are one string, whatever the order of user edits,
\* late change events and remote ops delivered in causal order.
RemoteHandled(r) ==
    /\ applied'[r] # applied[r]
    /\ applied'[r][Len(applied'[r])].sender # r

C19_Step ==
    \A r \in attached :
        RemoteHandled(r) =>
            /\ lastText'[r] = Text(list'[r])
            /\ lastText'[r] = GetValue(editor'[r])

C19_InSync ==
    /\ error # OutOfSync
    /\ \A r \in attached : lastText[r] = Text(list[r])

C19_EditorStaysInSync == [][C19_Step]_vars /\ []C19_InSync

\* An editor replica has just handled a remote op while a change event for
\* an edit of its own user was still waiting: the edit was folded in by the
\* same handling (its op stands right before the remote op), the change
\* event is still to come, and the three texts agree.
C19_Witness ==
    \E r \in attached :
        LET n == Len(applied[r])
        IN  /\ changes[r] > 0
            /\ n >= 2
            /\ applied[r][n].sender # r
            /\ \E g \in gen : g.origin = r /\ g.op = applied[r][n - 1].op
            /\ lastText[r] = Text(list[r])
            /\ lastText[r] = GetValue(editor[r])
            /\ lastText[r] # <<>>
            /\ error = NoError

\* -------------------------------------------------------------------- C20
\* C20: in the handling of a remote op at an editor-attached replica the
\* user edits still waiting in the editor are folded into the replica
\* before the remote op: their ops are applied first and the remote op
\* last, and the editor ends up showing the text a replica has that applied
\* the user's edits and then the op.  So both take effect: a remote insert
\* adds its one character to what the user left in the editor.  With
\* "HOME RUN", the user's deletion of the space still waiting and a remote
\* '*' inserted after the space, replica text and editor value both become
\* "HOME*RUN", and stay so when the late change event has run.
C20_Step ==
    \A r \in attached :
        RemoteHandled(r) =>
            LET n == Len(AppliedNow(r))
                op == AppliedNow(r)[n].op
                before == GetValue(editor[r])
                after == GetValue(editor'[r])
                e1 == TakeUserEdits(Ace(r))
            IN  /\ \A k \in 1..(n - 1) : AppliedNow(r)[k].sender = r
                /\ before # lastText[r] => n >= 2
                /\ Text(list'[r]) = Text(ApplyOp(e1.rga, op).list)
                /\ after = Text(list'[r])
                /\ op.type = "addRight" =>
                      \E k \in 0..Len(before) :
                          after = SubSeq(before, 1, k) \o <<op.w.atom>>
                                    \o SubSeq(before, k + 1, Len(before))

HomeStarRun == <<"H", "O", "M", "E", "*", "R", "U", "N">>

\* The user deleted the space and nothing else, x inserted '*' after the
\* space and nothing else, and y has handled x's op.
SpaceRaced ==
    /\ typed = 1 /\ Cardinality(gen) = 2
    /\ \A g \in gen : \/ g.origin = 1 /\ g.op = RemoveOp(Space)
                      \/ g.origin = 0 /\ g.op.type = "addRight"
                                      /\ g.op.t = Space
    /\ RemoveOp(Space) \in log[1]
    /\ \E g \in GenAdds : g.origin = 0 /\ g.op \in log[1]

C20_HomeRun ==
    SpaceRaced =>
        /\ error = NoError
        /\ Text(list[1]) = HomeStarRun
        /\ GetValue(editor[1]) = HomeStarRun
        /\ QueuesEmpty => Text(list[0]) = HomeStarRun

C20_UserEditsFirst == [][C20_Step]_vars /\ []C20_HomeRun

\* The race of the test: y applied its user's remove of the space and then
\* x's '*' in one handling, while the change event of the deletion still
\* waits.
C20_Witness ==
    /\ SpaceRaced
    /\ changes[1] = 1
    /\ Len(applied[1]) = Len(HomeRun) + 2
    /\ applied[1][Len(HomeRun) + 1] = [sender |-> 1, op |-> RemoveOp(Space)]
    /\ applied[1][Len(HomeRun) + 2].sender = 0
    /\ RemoveOp(Space) \notin log[0]
    /\ GetValue(editor[1]) = HomeStarRun

\* -------------------------------------------------------------------- C21
\* C21: a change event that runs while the editor's value equals _lastText
\* issues no op and leaves the replica, the editor, _lastText and every
\* queue as they were.  So the event of an edit that the handling of a
\* remote op has already folded in does nothing when it runs at last.
ChangeEventRan(r) == changes'[r] = changes[r] - 1

C21_Step ==
    \A r \in attached :
        (ChangeEventRan(r) /\ GetValue(editor[r]) = lastText[r]) =>
            /\ UNCHANGED <<list, index, nextTimestamp, editor, lastText>>
            /\ UNCHANGED <<queue, gen, log, applied>>
            /\ error' = NoError

C21_LateEventIsNoOp == [][C21_Step]_vars

\* The user's one deletion was folded in while y handled x's op, and the
\* change event of that deletion has run since and found nothing to do.
C21_Witness ==
    /\ typed = 1 /\ idle = 1 /\ changes[1] = 0
    /\ \E g \in GenRemoves : g.origin = 1 /\ g.op \in log[1]
    /\ \E g \in GenAdds : g.origin = 0 /\ g.op \in log[1]
    /\ GetValue(editor[1]) = Text(list[1])
    /\ lastText[1] = Text(list[1])
    /\ error = NoError

\* ---------------------------------------------------------------------
\* C22
\* ---------------------------------------------------------------------

\* The characters a patch deletes and the characters it inserts
RECURSIVE Deleted(_, _)
Deleted(ops, i) ==
    IF i > Len(ops) THEN 0
    ELSE (IF "delete" \in DOMAIN ops[i] THEN ops[i].delete ELSE 0)
         + Deleted(ops, i + 1)

RECURSIVE Inserted(_, _)
Inserted(ops, i) ==
    IF i > Len(ops) THEN 0
    ELSE (IF "insert" \in DOMAIN ops[i] THEN Len(ops[i].insert) ELSE 0)
         + Inserted(ops, i + 1)

\* e is what r's _takeUserEdits leaves when the editor differs from
\* _lastText: the ops are r's own, one remove per deleted character
\* and one addRight per inserted character, and they take the text to the
\* editor's value.
TookUserEdits(r, e) ==
    LET value == GetValue(editor[r])
        patch == Diff(lastText[r], value).ops
        types == [i \in 1..Len(e.out) |-> e.out[i].op.type]
    IN  /\ e.rga.error = NoError
        /\ Text(e.rga.list) = value
        /\ e.lastText = value
        /\ e.lines = editor[r]
        /\ \A i \in 1..Len(e.out) : e.out[i].source = r
        /\ Len(SelectSeq(types, LAMBDA t : t = "remove")) = Deleted(patch, 1)
        /\ Len(SelectSeq(types, LAMBDA t : t = "addRight")) = Inserted(patch, 1)

C22_Pending(r) == r \in attached /\ GetValue(editor[r]) # lastText[r]

C22_Inv == \A r \in Replicas : C22_Pending(r) => TookUserEdits(r, TakeUserEdits(Ace(r)))

C22_Step ==
    \A r \in Replicas :
        (C22_Pending(r) /\ ChangeEventRan(r)) =>
            /\ error' = NoError
            /\ Text(list'[r]) = GetValue(editor[r])
            /\ lastText'[r] = GetValue(editor[r])
            /\ editor' = editor
            /\ \A i \in 1..Len(AppliedNow(r)) : AppliedNow(r)[i].sender = r
            /\ Len(AppliedNow(r)) =
                  Deleted(Diff(lastText[r], GetValue(editor[r])).ops, 1)
                  + Inserted(Diff(lastText[r], GetValue(editor[r])).ops, 1)

\* C22: whenever _takeUserEdits runs with the editor's value different from
\* _lastText, the removes and addRights it issues (one remove per deleted
\* character, one addRight per inserted character, all its own) change the
\* replica's text from _lastText to exactly the editor's value, and
\* _lastText is set to that value.
C22_UserEditsReachReplica == [][C22_Step]_vars /\ []C22_Inv

\* Replica 1 has folded in two user edits, a deletion and an insertion, and
\* its text is the editor's value.
C22_Witness ==
    /\ typed = 2 /\ changes[1] = 0 /\ idle = 0
    /\ \E g \in GenRemoves : g.origin = 1
    /\ \E g \in GenAdds : g.origin = 1
    /\ Cardinality(gen) = 2
    /\ GetValue(editor[1]) = Text(list[1])
    /\ lastText[1] = Text(list[1])
    /\ lastText[1] # <<>>
    /\ error = NoError

\* ---------------------------------------------------------------------
\* C23
\* ---------------------------------------------------------------------

\* Every event queue is drained: no deferred sink call and no deferred
\* change event is left.
Drained == QueuesEmpty /\ \A r \in Replicas : changes[r] = 0

\* C23: with editor-attached replicas tied together and users editing their
\* editors concurrently, change events running arbitrarily late, once every
\* event queue is drained each editor's value equals its own replica's text
\* and the texts of all tied replicas are equal.
C23_EditorsConverge ==
    Drained =>
        /\ error = NoError
        /\ \A r \in attached : GetValue(editor[r]) = Text(list[r])
        /\ \A r, s \in created : Text(list[r]) = Text(list[s])

\* Both users typed while the other's edit was still unseen, at the same
\* place of the text, and everything has been drained since.
C23_Witness ==
    /\ Drained
    /\ typed = 2
    /\ \E g, h \in GenAdds :
          /\ g.origin = 1 /\ h.origin = 2
          /\ g.op.t = h.op.t
          /\ h.op.w.timestamp \notin g.seen
          /\ g.op.w.timestamp \notin h.seen
    /\ \A r \in created : \A g \in gen : g.op \in log[r]

\* ---------------------------------------------------------------------
\* C24
\* ---------------------------------------------------------------------

Constructed == attached' \ attached

C24_Step ==
    \A r \in Constructed :
        /\ GetValue(editor'[r]) = Text(list'[r])
        /\ lastText'[r] = Text(list'[r])
        /\ Text(list'[r]) = Text(Replay(EmptyRga(r), born'[r], 1).list)

\* C24: constructing an editor-attached replica overwrites whatever the
\* editor held before: right after construction the editor's value, the
\* replica's text and _lastText are the same, for an empty replica and for
\* one built from a history.
C24_ConstructorClobbersEditor == [][C24_Step]_vars

\* Replica 2 was built from a two-line history on an editor that held other
\* text, and the editor now shows the replica's text.
C24_Witness ==
    /\ 2 \in attached
    /\ typed > 0
    /\ \E i \in 1..Len(born[2]) :
          born[2][i].type = "addRight" /\ born[2][i].w.atom = NL
    /\ Len(Text(list[2])) > 1
    /\ Len(editor[2]) = 2
    /\ GetValue(editor[2]) = Text(list[2])
    /\ lastText[2] = Text(list[2])

\* ---------------------------------------------------------------------
\* C25
\* ---------------------------------------------------------------------

\* An op a replica applies for another sender comes from a replica it is
\* tied to, which applied the op before.
C25_Step ==
    \A r \in created :
        AppliedOne(r) =>
            LET x == applied'[r][Len(applied'[r])]
            IN  x.sender # r =>
                   /\ x.sender \in Range(subscribers[r])
                   /\ x.op \in log[x.sender]

C25_AtMostOnce ==
    \A g \in gen : \A r \in created :
        Count(AppliedOps(r), g.op) <= Cardinality(Generated(g.op))

\* Nothing is in flight, every op generated so far was applied once at every
\* replica of the chain, and all replicas return the same text.
C25_Settled ==
    /\ QueuesEmpty
    /\ error = NoError
    /\ \A g \in gen : \A r \in created :
          Count(AppliedOps(r), g.op) = Cardinality(Generated(g.op))
    /\ \A r, s \in created : Text(list[r]) = Text(list[s])

\* C25: in a chain of tied replicas an op applied locally at any replica is
\* relayed hop by hop and applied exactly once at every replica of the
\* chain, after which all replicas return the same text.
C25_ChainReplicates ==
    /\ [][C25_Step]_vars
    /\ [](C25_AtMostOnce /\ (QueuesEmpty => C25_Settled))
    /\ []<>C25_Settled

\* An op of replica 2 at one end reached replica 0 at the other end through
\* replica 1, an op of replica 0 went the other way, and the chain is
\* settled.
C25_Witness ==
    /\ C25_Settled
    /\ \E g \in gen : g.origin = 2 /\ [sender |-> 1, op |-> g.op] \in Range(applied[0])
    /\ \E g \in gen : g.origin = 0 /\ [sender |-> 1, op |-> g.op] \in Range(applied[2])
    /\ Text(list[0]) # <<>>

\* ---------------------------------------------------------------------
\* C26
\* ---------------------------------------------------------------------

\* How often op o is on its way through socket end s or has come out at the
\* other end: waiting in the replica's queue for the sink of s, buffered at
\* s, applied at the far replica for the far sink.
Underway(s, o) ==
    Cardinality({i \in 1..Len(queue[TiedTo[s]]) :
                    queue[TiedTo[s]][i] = [sink |-> s, op |-> o]})
    + Cardinality({i \in 1..Len(buffer[s]) :
                      buffer[s][i] = [tag |-> "downstream", op |-> o]})
    + Cardinality({i \in 1..Len(applied[TiedTo[Peer(s)]]) :
                      applied[TiedTo[Peer(s)]][i] =
                         [sender |-> Peer(s), op |-> o]})

\* How often the replica of s applied o for a sender other than the sink of s
Due(s, o) ==
    Cardinality({i \in 1..Len(applied[TiedTo[s]]) :
                    /\ applied[TiedTo[s]][i].op = o
                    /\ applied[TiedTo[s]][i].sender # s})

C26_EmittedOnce ==
    \A s \in DOMAIN TiedTo : \A o \in log[TiedTo[s]] :
        /\ Underway(s, o) <= Due(s, o)
        /\ s \in Range(subscribers[TiedTo[s]]) => Underway(s, o) = Due(s, o)

\* s.emit buffers and applies nothing; the replica of s applies an op for
\* the sink of s only as the peer's oldest buffered message is delivered,
\* and then defers it to its other subscribers and not to the sink of s.
C26_Step ==
    \A s \in DOMAIN TiedTo :
        /\ Len(buffer'[s]) > Len(buffer[s]) =>
              /\ buffer'[s][Len(buffer'[s])].tag = "downstream" =>
                    /\ [sink |-> s, op |-> buffer'[s][Len(buffer'[s])].op]
                          = queue[TiedTo[s]][1]
                    /\ queue'[TiedTo[s]] = Tail(queue[TiedTo[s]])
              /\ UNCHANGED <<list, index, log, applied>>
        /\ (/\ AppliedOne(TiedTo[s])
            /\ applied'[TiedTo[s]][Len(applied'[TiedTo[s]])].sender = s) =>
              LET x == applied'[TiedTo[s]][Len(applied'[TiedTo[s]])]
                  others == SelectSeq(subscribers[TiedTo[s]],
                                      LAMBDA c : c # s)
              IN  /\ buffer[Peer(s)] # <<>>
                  /\ buffer[Peer(s)][1] = [tag |-> "downstream", op |-> x.op]
                  /\ buffer'[Peer(s)] = Tail(buffer[Peer(s)])
                  /\ queue'[TiedTo[s]] =
                        queue[TiedTo[s]]
                          \o [i \in 1..Len(others) |->
                                [sink |-> others[i], op |-> x.op]]
                  /\ buffer'[s] = buffer[s]

\* C26: tieToSocket: an op the replica applies for any other source is
\* emitted on the socket exactly once as a downstream message and is applied
\* at the far replica only when the socket delivers it; an op received from
\* the socket is applied to the replica and forwarded to the replica's other
\* subscribers, never emitted back onto the socket it arrived on.
C26_SocketRelay == [][C26_Step]_vars /\ []C26_EmittedOnce

\* An op of replica 2 reached replica 1 through replica 0 and the socket, an
\* op of replica 1 reached replica 2 the other way, and nothing is left in
\* any queue or buffer.
C26_Witness ==
    /\ QueuesEmpty
    /\ \A s \in DOMAIN TiedTo : buffer[s] = <<>>
    /\ \A s \in DOMAIN TiedTo : s \in Range(subscribers[TiedTo[s]])
    /\ \E g \in gen : /\ g.origin = 2
                      /\ [sender |-> 11, op |-> g.op] \in Range(applied[1])
    /\ \E g \in gen : /\ g.origin = 1
                      /\ [sender |-> 10, op |-> g.op] \in Range(applied[0])
                      /\ [sender |-> 0, op |-> g.op] \in Range(applied[2])
    /\ \A r \in Replicas : Text(list[r]) = Text(list[0])
    /\ error = NoError

\* ---------------------------------------------------------------------
\* C27
\* ---------------------------------------------------------------------

\* The disconnect listener of socket end s runs in this step.
DisconnectFires(s) ==
    /\ buffer[Peer(s)] # <<>>
    /\ buffer[Peer(s)][1].tag = "disconnect"
    /\ buffer'[Peer(s)] = Tail(buffer[Peer(s)])

\* What is still to go out through s: callbacks deferred for its sink and
\* downstream messages in its buffer
SinkLoad(q, b, s) ==
    Cardinality({i \in 1..Len(q[TiedTo[s]]) : q[TiedTo[s]][i].sink = s})
    + Cardinality({i \in 1..Len(b[s]) : b[s][i].tag = "downstream"})

C27_Step ==
    \A s \in DOMAIN TiedTo :
        /\ DisconnectFires(s) =>
              /\ s \in Range(subscribers[TiedTo[s]])
              /\ s \notin Range(subscribers'[TiedTo[s]])
              /\ subscribers'[TiedTo[s]] =
                    SelectSeq(subscribers[TiedTo[s]], LAMBDA c : c # s)
              /\ Len(subscribers'[TiedTo[s]]) =
                    Len(subscribers[TiedTo[s]]) - 1
              /\ \A r \in Replicas \ {TiedTo[s]} :
                    subscribers'[r] = subscribers[r]
              /\ UNCHANGED <<queue, list, index, log, applied, error>>
        /\ s \notin Range(subscribers[TiedTo[s]]) =>
              /\ s \notin Range(subscribers'[TiedTo[s]])
              /\ SinkLoad(queue', buffer', s) <= SinkLoad(queue, buffer, s)

\* C27: after a socket's disconnect event the replica's sink for that socket
\* is unsubscribed: ops the replica applies afterwards are not emitted on
\* that socket, exactly that one sink is removed, and the replica's other
\* subscribers are unaffected.
C27_DisconnectUnsubscribes == [][C27_Step]_vars

\* Socket end 10 has disconnected, replica 0 keeps replica 2 as its only
\* subscriber, and an op of replica 2 that replica 0 applied since has not
\* gone out to replica 1 and will not: nothing is left to emit.
C27_Witness ==
    /\ subscribers[0] = <<2>>
    /\ subscribers[1] = <<11>>
    /\ QueuesEmpty
    /\ buffer[10] = <<>> /\ buffer[11] = <<>>
    /\ \E g \in gen : /\ g.origin = 2
                      /\ g.op \in log[0]
                      /\ g.op \notin log[1]
    /\ \E g \in gen : /\ g.origin = 0
                      /\ g.op \in log[1]
                      /\ g.op \in log[2]

\* ---------------------------------------------------------------------
\* C28
\* ---------------------------------------------------------------------

NotInSync == "RGA.tie: arguments must start out already in sync"

C28_Step ==
    /\ \A a, b \in Replicas :
          TieCall(a, b) =>
              IF History(list[a]) # History(list[b])
              THEN error' = NotInSync /\ subscribers' = subscribers
              ELSE /\ error' = NoError
                   /\ subscribers'[a] = Append(subscribers[a], b)
                   /\ subscribers'[b] = Append(subscribers[b], a)
                   /\ \A r \in Replicas \ {a, b} :
                         subscribers'[r] = subscribers[r]
    /\ subscribers' # subscribers =>
          \E a, b \in Replicas :
              /\ History(list[a]) = History(list[b])
              /\ subscribers'[a] = Append(subscribers[a], b)
              /\ subscribers'[b] = Append(subscribers[b], a)

\* C28: RGA.tie(a, b) raises an error and installs no subscription on either
\* replica when a.history() and b.history() differ; when the histories are
\* identical it makes each replica a subscriber of the other.
C28_TieRequiresSameHistory == [][C28_Step]_vars

\* Replicas 0 and 1 were tied, replica 1 has typed since, and a tie of
\* replica 2, which has not got the character, has just been refused.
C28_Witness ==
    /\ subscribers[0] = <<1>> /\ subscribers[1] = <<0>>
    /\ subscribers[2] = <<>>
    /\ error = NotInSync
    /\ History(list[0]) = History(list[1])
    /\ History(list[2]) # History(list[1])
    /\ \E g \in gen : g.origin = 1 /\ g.op \in log[0]

\* ---------------------------------------------------------------------
\* C29
\* ---------------------------------------------------------------------

\* The sockets whose client is connected
Connected == Range(subscribers[Central]) \cap Sockets

\* C29: every client id the server assigns on connection is a positive
\* integer, distinct from the id of every other connected client and from
\* the central replica's id 0.
C29_ClientIdsPositiveDistinct ==
    \A s \in Sockets :
        userId[s] # NoUser =>
            /\ userId[s] > 0
            /\ userId[s] # Central
            /\ \A c \in Connected \ {s} : userId[c] # userId[s]

\* The ids the server hands out are distinct from each other.
C29_ClientIdsDistinct ==
    \A s \in Sockets :
        userId[s] # NoUser =>
            \A c \in Connected \ {s} : userId[c] # userId[s]

\* ---------------------------------------------------------------------
\* C30
\* ---------------------------------------------------------------------

RECURSIVE Retained(_, _)
Retained(ops, i) ==
    IF i > Len(ops) THEN 0
    ELSE (IF "retain" \in DOMAIN ops[i] THEN ops[i].retain ELSE 0)
         + Retained(ops, i + 1)

\* The text the ops from the i-th on make of str from position pos on:
\* retain copies, delete skips, insert puts its string in.
RECURSIVE ApplyPatch(_, _, _, _)
ApplyPatch(ops, i, str, pos) ==
    IF i > Len(ops) THEN <<>>
    ELSE IF "retain" \in DOMAIN ops[i]
    THEN SubSeq(str, pos + 1, Min(pos + ops[i].retain, Len(str)))
         \o ApplyPatch(ops, i + 1, str, pos + ops[i].retain)
    ELSE IF "delete" \in DOMAIN ops[i]
    THEN ApplyPatch(ops, i + 1, str, pos + ops[i].delete)
    ELSE ops[i].insert \o ApplyPatch(ops, i + 1, str, pos)

\* The patch takes s0 to s1 and accounts for every character of both.
RoundTrip ==
    /\ ApplyPatch(trial.ops, 1, trial.s0, 0) = trial.s1
    /\ Retained(trial.ops, 1) + Deleted(trial.ops, 1) = Len(trial.s0)
    /\ Retained(trial.ops, 1) + Inserted(trial.ops, 1) = Len(trial.s1)

\* C30, as amended: diff(s, s) has no ops, and for different strings s0, s1
\* over a bounded alphabet and length, applying the retain/delete/insert ops
\* of diff(s0, s1) to s0 in order yields exactly s1; retain and delete counts
\* sum to the length of s0, retain counts and insert lengths to that of s1.
C30_DiffRoundTripOfDifferent ==
    trial.done =>
        /\ error = NoError
        /\ trial.s0 = trial.s1 => trial.ops = <<>>
        /\ trial.s0 # trial.s1 => RoundTrip

\* C30, as stated: diff round trip: for all strings s0, s1 over a bounded
\* alphabet and length, diff(s, s) has no ops, and applying the
\* retain/delete/insert ops of diff(s0, s1) to s0 in order yields exactly s1;
\* retain and delete counts sum to the length of s0, retain counts and insert
\* lengths to that of s1.
C30_DiffRoundTrip ==
    trial.done =>
        /\ error = NoError
        /\ trial.s0 = trial.s1 => trial.ops = <<>>
        /\ ApplyPatch(trial.ops, 1, trial.s0, 0) = trial.s1
        /\ Retained(trial.ops, 1) + Deleted(trial.ops, 1) = Len(trial.s0)
        /\ Retained(trial.ops, 1) + Inserted(trial.ops, 1) = Len(trial.s1)

\* diff("abba", "bab") was called and gave a patch that deletes, retains and
\* inserts.
C30_Witness ==
    /\ trial.done
    /\ trial.s0 = <<"a", "b", "b", "a">>
    /\ trial.s1 = <<"b", "a", "b">>
    /\ Retained(trial.ops, 1) > 0
    /\ Deleted(trial.ops, 1) > 0
    /\ Inserted(trial.ops, 1) > 0
    /\ ApplyPatch(trial.ops, 1, trial.s0, 0) = trial.s1

\* ---------------------------------------------------------------------
\* C31
\* ---------------------------------------------------------------------

\* randomPositionIn of the tests: the (row, column) of offset k of str
PositionIn(str, k) ==
    LET lines == Split(Slice(str, 0, k))
    IN  [row |-> Len(lines) - 1, column |-> Len(lines[Len(lines)])]

\* The offsets of str that (line, column) is the position of
OffsetsAt(str, line, column) ==
    {k \in 0..Len(str) :
        PositionIn(str, k) = [row |-> line, column |-> column]}

\* Every step of the system is the one call that trial' records.
C31_Step ==
    trial'.call = "insertRowColumn" =>
        \A k \in OffsetsAt(Text(list[0]), trial'.line, trial'.column) :
            /\ error' = NoError
            /\ Text(list'[0]) = Slice(Text(list[0]), 0, k) \o trial'.text
                                  \o SliceFrom(Text(list[0]), k)

\* C31: at any replica, with tombstones or without, and for any (row,
\* column) that is the position of offset k of text(), insertRowColumn(source,
\* row, column, s) leaves text() equal to the old text with s inserted at
\* offset k.
C31_InsertAtRowColumn == [][C31_Step]_vars

\* A newline and a character after it were inserted by one call between two
\* visible characters of a replica that was built with a tombstone, and
\* stand there next to each other.
C31_Witness ==
    /\ error = NoError
    /\ trial # Untried
    /\ trial.call = "insertRowColumn" /\ trial.text = <<NL, "Y">>
    /\ \E i \in 1..Len(born[0]) : born[0][i].type = "remove"
    /\ \E p \in 2..(Len(list[0]) - 1) :
          /\ AddRightOp(list[0][p].timestamp, list[0][p + 1].timestamp, "Y")
                \in log[0]
          /\ list[0][p].atom = NL
          /\ ~list[0][p].removed /\ ~list[0][p + 1].removed
          /\ \E i \in 2..(p - 1) : ~list[0][i].removed
          /\ \E i \in (p + 2)..Len(list[0]) : ~list[0][i].removed

\* ---------------------------------------------------------------------
\* C32
\* ---------------------------------------------------------------------

\* The positions of the list l that hold its visible characters, in order
RECURSIVE VisiblePositions(_, _)
VisiblePositions(l, i) ==
    IF i > Len(l) THEN <<>>
    ELSE (IF l[i].removed THEN <<>> ELSE <<i>>) \o VisiblePositions(l, i + 1)

TooMany == "tried to remove more characters than exist in document"

C32_Step ==
    trial'.call = "removeRowColumn" =>
        \A k \in OffsetsAt(Text(list[0]), trial'.line, trial'.column) :
            LET vis == VisiblePositions(list[0], 2)
                n == trial'.length
            IN  IF k + n <= Len(vis)
                THEN /\ error' = NoError
                     /\ Len(list'[0]) = Len(list[0])
                     /\ {i \in 1..Len(list[0]) :
                            list'[0][i].removed /\ ~list[0][i].removed}
                          = {vis[j] : j \in (k + 1)..(k + n)}
                     /\ \A i \in 1..Len(list[0]) :
                           list[0][i].removed => list'[0][i].removed
                     /\ Text(list'[0]) =
                           Slice(Text(list[0]), 0, k)
                             \o SliceFrom(Text(list[0]), k + n)
                ELSE error' = TooMany

\* C32: removeRowColumn(source, row, column, n) tombstones exactly the n
\* visible characters that start at the offset of (row, column), passing over
\* the nodes that are tombstones already, so that text() becomes the old
\* text with those n characters deleted; a call that asks for more
\* characters than remain throws.
C32_RemoveAtRowColumn == [][C32_Step]_vars

\* The two characters on either side of a tombstone the replica was built
\* with have been removed by one call.
C32_Witness ==
    /\ error = NoError
    /\ trial # Untried
    /\ trial.call = "removeRowColumn" /\ trial.length = 2
    /\ \E p \in 2..(Len(list[0]) - 2) :
          /\ RemoveOp(list[0][p].timestamp) \in log[0]
          /\ RemoveOp(list[0][p + 1].timestamp) \in Range(born[0])
          /\ RemoveOp(list[0][p + 2].timestamp) \in log[0]

\* ---------------------------------------------------------------------
\* C33
\* ---------------------------------------------------------------------

\* The row and column of the node at position p of the list l: the place
\* behind the visible atoms in front of it, every newline starting a row
NodePosition(l, p) ==
    PositionIn(Text(SubSeq(l, 1, p - 1)), Len(Text(SubSeq(l, 1, p - 1))))

\* The op of the remote handling that replica r has just finished
RemoteOp(r) == applied'[r][Len(applied'[r])].op

C33_Step ==
    \A r \in attached :
        (RemoteHandled(r) /\ RemoteOp(r).type = "addRight") =>
            \A s \in {TakeUserEdits(Ace(r)).rga} : \A l \in {list'[r]} :
                LET op == RemoteOp(r)
                    loc == NodePosition(l, index'[r][op.w.timestamp])
                IN  /\ GetRowColumnAfter(s, op.t, op.w.timestamp) = loc
                    /\ editor'[r] = Insert(editor[r], loc, <<op.w.atom>>)

\* C33: when an editor-attached replica handles a remote addRight(after, w),
\* the (row, column) at which the character goes into the editor is the
\* position, counted over the non-removed atoms with every newline starting
\* a row at column 0, that node w has in the replica's list once the op is
\* applied; also when `after` is a tombstone and when nodes that follow
\* `after` have larger timestamps than w.
C33_RemoteInsertPosition == [][C33_Step]_vars

\* Replica 1 has just handled an addRight of replica 0 whose anchor its user
\* had deleted, and put the node behind a character its user had typed
\* after the same anchor.
C33_Witness ==
    /\ error = NoError
    /\ applied[1] # <<>>
    /\ LET x == applied[1][Len(applied[1])]
       IN  /\ x.sender = 0 /\ x.op.type = "addRight"
           /\ x.op.t # LEFT
           /\ list[1][index[1][x.op.t]].removed
           /\ index[1][x.op.w.timestamp] > index[1][x.op.t] + 1
           /\ list[1][index[1][x.op.t] + 1].timestamp > x.op.w.timestamp
           /\ ~list[1][index[1][x.op.t] + 1].removed
           /\ GetValue(editor[1]) = Text(list[1])

\* ---------------------------------------------------------------------
\* C34
\* ---------------------------------------------------------------------

C34_Step ==
    \A r \in attached :
        (RemoteHandled(r) /\ RemoteOp(r).type = "remove") =>
            \A s \in {TakeUserEdits(Ace(r)).rga} :
                LET p == s.index[RemoteOp(r).t]
                    k == Len(Text(SubSeq(s.list, 1, p - 1)))
                    loc == NodePosition(s.list, p)
                    text == GetValue(editor[r])
                    span == [start |-> loc,
                             end |-> IF s.list[p].atom = NL
                                     THEN [row |-> loc.row + 1, column |-> 0]
                                     ELSE [row |-> loc.row,
                                           column |-> loc.column + 1]]
                IN  IF s.list[p].removed THEN editor'[r] = editor[r]
                    ELSE /\ GetRowColumnBefore(s, RemoteOp(r).t) = loc
                         /\ editor'[r] = RemoveSpan(editor[r], span)
                         /\ text[k + 1] = s.list[p].atom
                         /\ GetValue(editor'[r]) =
                               SubSeq(text, 1, k)
                                   \o SubSeq(text, k + 2, Len(text))
                         /\ list'[r][p].removed
                         /\ Text(list'[r]) = GetValue(editor'[r])

\* C34: when an editor-attached replica handles a remote remove(t) of a
\* visible node, the range deleted from the editor is exactly the one
\* character at t's position among the visible atoms, a newline being
\* deleted as the span from the end of its row to column 0 of the next row:
\* the editor loses precisely the character that the replica tombstones.
C34_RemoteRemoveRange == [][C34_Step]_vars

\* Replica 1 has just handled replica 0's remove of the newline, which stood
\* behind a tombstone and a character of its user; the editor's two rows
\* have become one.
C34_Witness ==
    /\ error = NoError
    /\ applied[1] # <<>>
    /\ LET x == applied[1][Len(applied[1])]
       IN  /\ x.sender = 0 /\ x.op.type = "remove"
           /\ \A g \in gen : g.op = x.op => g.origin = 0
           /\ list[1][index[1][x.op.t]].atom = NL
           /\ \E i \in 2..(index[1][x.op.t] - 1) : list[1][i].removed
           /\ \E i \in 2..(index[1][x.op.t] - 1) :
                 ~list[1][i].removed /\ list[1][i].atom = "Y"
           /\ Len(editor[1]) = 1
           /\ GetValue(editor[1]) = Text(list[1])

\* ---------------------------------------------------------------------
\* C35
\* ---------------------------------------------------------------------

\* The ops that replica r generates in this step
GeneratedAt(r) == {g.op : g \in {x \in gen' \ gen : x.origin = r}}

C35_Step ==
    \A r \in attached :
        /\ error = NoError => listeners[r] = 1
        /\ error' = NoError => listeners'[r] = 1
        /\ GeneratedAt(r) # {} => GetValue(editor[r]) # lastText[r]
        /\ RemoteHandled(r) =>
              \A e \in {TakeUserEdits(Ace(r))} :
                  /\ changes'[r] = changes[r]
                  /\ GeneratedAt(r) = {e.out[i].op : i \in 1..Len(e.out)}
                  /\ GetValue(editor'[r]) = lastText'[r]

\* C35: the change listener of an editor-attached replica is registered
\* exactly once whenever no handler is running, and not at all while
\* _applyOpToEditor writes to the editor: the write of a remote op defers no
\* change event, the only ops the replica generates while it handles a remote
\* op are those of the user's edits that were waiting, no op is ever
\* generated unless the user has changed the editor, and after the handling
\* the editor holds _lastText, so that the next _takeUserEdits finds nothing.
C35_CallbacksDisabled == [][C35_Step]_vars

\* Replica 1 has just written replica 0's character into its editor while
\* the change event of its user's one edit was still waiting; that event is
\* the only one deferred and the listener is registered once.
C35_Witness ==
    /\ error = NoError
    /\ applied[1] # <<>>
    /\ LET x == applied[1][Len(applied[1])]
       IN  /\ x.sender = 0 /\ x.op.type = "addRight"
           /\ \E g \in gen : g.origin = 0 /\ g.op = x.op
    /\ typed = 1 /\ idle = 0
    /\ changes[1] = 1
    /\ listeners[1] = 1
    /\ \E g \in gen : g.origin = 1

\* ---------------------------------------------------------------------
\* C36
\* ---------------------------------------------------------------------

\* The ops that this step has put on r's queue for subscriber x, in order
QueuedFor(r, x) ==
    LET new == SubSeq(queue'[r], Len(queue[r]) + 1, Len(queue'[r]))
        mine == SelectSeq(new, LAMBDA m : m.sink = x)
    IN  [i \in 1..Len(mine) |-> mine[i].op]

C36_Step ==
    \A r \in attached : \A e \in {TakeUserEdits(Ace(r))} :
        /\ e.lines = editor[r]
        /\ e.events = 0
        /\ ChangeEventRan(r) =>
              /\ editor' = editor
              /\ GeneratedAt(r) = {e.out[i].op : i \in 1..Len(e.out)}
              /\ GeneratedAt(r) \subseteq log'[r]
              /\ \A o \in GeneratedAt(r) :
                    IF o.type = "addRight"
                    THEN /\ o.w.timestamp \notin DOMAIN index[r]
                         /\ o.w.timestamp \in DOMAIN index'[r]
                    ELSE /\ ~list[r][index[r][o.t]].removed
                         /\ list'[r][index'[r][o.t]].removed
              /\ \A x \in Range(subscribers[r]) :
                    QueuedFor(r, x) = [i \in 1..Len(e.out) |-> e.out[i].op]
              /\ Len(queue'[r]) =
                    Len(queue[r]) + Len(e.out) * Len(subscribers[r])

\* C36: _takeUserEdits never writes to the editor.  In every reachable state
\* of an editor-attached replica it would leave the editor's lines as they
\* are and defer no change event; and when a change event runs it, the ops
\* it derives are applied to the replica (a new node for each addRight, a
\* new tombstone for each remove) and queued once for every subscriber, in
\* order, while the editor of every replica stays as it was.
C36_UserEditsNotWrittenBack == [][C36_Step]_vars

\* The change event of replica 1 has folded in two edits of its user, an
\* insertion and a deletion; both ops wait in the queue for replica 0, and
\* the editor holds what the user left in it, which is now the replica's
\* text.
C36_Witness ==
    /\ error = NoError
    /\ typed = 2 /\ changes[1] = 1
    /\ applied[1] # <<>>
    /\ applied[1][Len(applied[1])].sender = 1
    /\ \E g \in GenAdds : g.origin = 1 /\ \E k \in 1..Len(queue[1]) :
          queue[1][k].op = g.op /\ queue[1][k].sink = 0
    /\ \E g \in GenRemoves : g.origin = 1 /\ \E k \in 1..Len(queue[1]) :
          queue[1][k].op = g.op /\ queue[1][k].sink = 0
    /\ GetValue(editor[1]) = Text(list[1])
    /\ GetValue(editor[1]) # Text(list[0])

\* ---------------------------------------------------------------------
\* C37
\* ---------------------------------------------------------------------

\* The timestamps of the nodes of l that were in the replica before this
\* step, in list order
OldNodes(r, l) ==
    LET old == SelectSeq(l, LAMBDA n : n.timestamp \in DOMAIN index[r])
    IN  [i \in 1..Len(old) |-> old[i].timestamp]

C37_Step ==
    \A r \in created : \A o \in GeneratedAt(r) :
        o.type = "addRight" =>
            /\ \A i \in 1..Len(list[r]) : list[r][i].timestamp < o.w.timestamp
            /\ index'[r][o.w.timestamp] = index'[r][o.t] + 1
            /\ list'[r][index'[r][o.w.timestamp]].atom = o.w.atom
            /\ ~list'[r][index'[r][o.w.timestamp]].removed
            /\ OldNodes(r, list'[r]) = OldNodes(r, list[r])

\* C37: the node of an addRight is placed, at the replica that generates it,
\* immediately behind its anchor: its timestamp is larger than every
\* timestamp of the replica's list, so the loop of _downstream_addRight skips
\* no successor, and the nodes that were there keep their order.  The
\* characters of one insertion of _applyDelta, each anchored at the one
\* before, therefore stand next to each other in typing order.
C37_LocalInsertBehindAnchor == [][C37_Step]_vars

\* Replica 1 has folded in a run of two characters typed by its user, the
\* second anchored at the first, and they stand next to each other; both
\* have reached replica 0, which has then inserted a character of its own
\* between their anchor and the first of them.
C37_Witness ==
    /\ error = NoError
    /\ \E g1, g2 \in GenAdds :
          /\ g1.origin = 1 /\ g2.origin = 1
          /\ g2.op.t = g1.op.w.timestamp
          /\ index[1][g2.op.w.timestamp] = index[1][g1.op.w.timestamp] + 1
          /\ g1.op \in log[0] /\ g2.op \in log[0]
          /\ \E g \in GenAdds :
                /\ g.origin = 0
                /\ g.op.t = g1.op.t
                /\ g1.op.w.timestamp \in g.seen
                /\ index[0][g.op.w.timestamp] = index[0][g.op.t] + 1
                /\ index[0][g1.op.w.timestamp] = index[0][g.op.t] + 2

\* ---------------------------------------------------------------------
\* C38
\* ---------------------------------------------------------------------

\* Every op of h refers to the left sentinel or to a node that an earlier
\* addRight of h has introduced.
Replayable(h) ==
    \A i \in 1..Len(h) :
        \/ h[i].t = LEFT
        \/ \E j \in 1..(i - 1) :
              h[j].type = "addRight" /\ h[j].w.timestamp = h[i].t

C38_Inv ==
    \A r \in created : \A id \in Replicas :
        \A h \in {History(list[r])} : \A s \in {NewRga(id, h)} :
            /\ Replayable(h)
            /\ s.error = NoError
            /\ History(s.list) = h
            /\ [i \in 2..Len(s.list) |-> s.list[i]] =
                  [i \in 2..Len(list[r]) |-> list[r][i]]
            /\ TieError(Rga(r), s) = NoError
            /\ Tie(subscribers, Rga(r), s) # subscribers

C38_Step ==
    \A id \in created' \ created :
        /\ error' = NoError
        /\ born'[id] = History(list[Central])
        /\ History(list'[id]) = born'[id]
        /\ subscribers'[id] = <<Central>>
        /\ subscribers'[Central] = Append(subscribers[Central], id)

\* C38: the history of a replica is a fixed point of replay.  For every
\* replica r of a reachable state and every id, new RGA(id, r.history())
\* is built without an error, has the nodes of r (tombstones included) in
\* the same order and therefore the same history, in which every op refers
\* to the left sentinel or to a timestamp introduced earlier; RGA.tie of r
\* and that replica succeeds.  A replica that joins by new RGA(id,
\* p.history()) and RGA.tie(p, id) is so tied without an error.
C38_HistoryFixedPoint == []C38_Inv /\ [][C38_Step]_vars

\* Replica 2 has been built from the history of replica 0, which held a
\* tombstone, and tied to it; the two have the same history.
C38_Witness ==
    /\ error = NoError
    /\ 2 \in created
    /\ Len(born[2]) = 2
    /\ born[2][2].type = "remove"
    /\ \E i \in 1..Len(subscribers[Central]) : subscribers[Central][i] = 2
    /\ subscribers[2] = <<Central>>
    /\ Len(list[2]) = 2 /\ list[2][2].removed
    /\ History(list[2]) = History(list[Central])

\* ---------------------------------------------------------------------
\* C39
\* ---------------------------------------------------------------------

\* No callback is deferred and every op generated so far has been applied
\* at every replica.
C39_Quiescent ==
    /\ QueuesEmpty
    /\ \A g \in gen : \A r \in created : g.op \in log[r]

C39_Step ==
    /\ C39_Quiescent =>
          \A r \in created : \A i \in 1..Len(AppliedNow(r)) :
              AppliedNow(r)[i].sender = r
    /\ \A r \in created : \A i \in 1..Len(AppliedNow(r)) :
          LET x == AppliedNow(r)[i]
          IN  (x.sender # r /\ Cardinality(Generated(x.op)) = 1) =>
                 x.op \notin log[r]

\* C39: in the chain 0 - 1 - 2 with the event queue run fairly, whenever an
\* op has not reached every replica or a callback is waiting, the system
\* gets to a state in which every op generated has been applied at every
\* replica and all queues are empty; from some point on it stays in such
\* states for ever.  In such a state nothing is delivered: the only steps
\* are new local ops; and no replica is ever handed an op it has applied.
C39_EventuallyQuiescent ==
    /\ [][C39_Step]_vars
    /\ (~C39_Quiescent) ~> C39_Quiescent
    /\ <>[]C39_Quiescent

\* The chain is quiescent after an addRight of replica 0 and the remove of
\* its node by replica 2: both ops went through replica 1 to the far end,
\* and the node is a tombstone everywhere.
C39_Witness ==
    /\ C39_Quiescent
    /\ error = NoError
    /\ \E g \in GenAdds : \E h \in gen :
          /\ g.origin = 0 /\ h.origin = 2
          /\ h.op = RemoveOp(g.op.w.timestamp)
          /\ [sender |-> 1, op |-> g.op] \in Range(applied[2])
          /\ [sender |-> 1, op |-> h.op] \in Range(applied[0])
          /\ \A r \in created : list[r][index[r][g.op.w.timestamp]].removed

\* ---------------------------------------------------------------------
\* C40
\* ---------------------------------------------------------------------

C40_Step ==
    \A r \in created :
        /\ \A i \in 1..Len(AppliedNow(r)) :
              LET x == AppliedNow(r)[i]
              IN  (/\ x.sender # r
                   /\ x.op.type = "addRight"
                   /\ x.op.w.timestamp >= 0
                   /\ x.op.w.timestamp >= nextTimestamp[r]) =>
                      /\ nextTimestamp'[r] > x.op.w.timestamp
                      /\ nextTimestamp'[r] > LEFT
        /\ \A o \in GeneratedAt(r) :
              o.type = "addRight" =>
                  \A t \in DOMAIN index[r] : o.w.timestamp > t

\* C40: the counter advance does not wrap.  When a replica applies an
\* addRight of another replica whose timestamp t, 0 <= t < 2^31, is not
\* below its next timestamp, the next timestamp afterwards,
\* (((t >>> 16) + 1) << 16) + id, is greater than t and than LEFT; and
\* every timestamp a replica mints is greater than every timestamp in its
\* list, LEFT included.
C40_CounterAdvanceNoWrap == [][C40_Step]_vars

====
